---- MODULE Spec2Model ----
(***************************************************************************)
(* Model of tailr (src/tailr/src/lib.rs): the take-value parser parse_num  *)
(* and the offset resolver get_start_index.                                *)
(*                                                                         *)
(* Rust's i64 / u64 are modelled as two's-complement integers of Bits      *)
(* bits (TLC's own integers are 32 bits wide, so the 64-bit width is       *)
(* scaled down; every boundary of the type -- MIN, MAX, the wrap of an     *)
(* addition, the reinterpreting cast `as u64` -- keeps its place).         *)
(* An arithmetic overflow panics in a build with overflow checks (debug)   *)
(* and wraps in a build without them (release): `build` ranges over both.  *)
(*                                                                         *)
(* A &str is a sequence of one-character strings.                          *)
(*                                                                         *)
(* The second part models get_args and run with the two emitters           *)
(* print_lines and print_bytes: a command line, a file system of named     *)
(* byte streams, the loop over the files one step at a time, and what      *)
(* reaches stdout and stderr.  A byte is one of four symbols: "x" (an      *)
(* ASCII letter), "nl" (the line feed), and "C3" "A9" (the two bytes of a  *)
(* two-byte UTF-8 character); every I/O call after the open may fail.      *)
(***************************************************************************)
EXTENDS Integers, Sequences, FiniteSets

VARIABLES value, parsed, take_val, total, start, build, overflowed, pc,
          args, fs, config, file_no, totals, printed_header, rpos, offset,
          stdout, stderr, ret, rpc, trace

\* the state of get_args and run
runVars == <<args, fs, config, file_no, totals, printed_header, rpos, offset,
             stdout, stderr, ret, rpc, trace>>

\* the state of parse_num and get_start_index taken alone
unitVars == <<value, parsed, take_val, total, pc>>

\* the state of the other programs of the repository, one group each
VARIABLES ranges, pos_list, line, record, extracted, cut_pc,
          val, positive_int,
          input, file_info,
          mode, mode_str,
          text, pattern, found,
          in_file, show_count, prev_line, curr_line, uniq_count, uniq_pos,
          outfile, uniq_ret, uniq_pc,
          file1, file2, file1_lines, file2_lines, insensitive, reported,
          calls, comm_pc, show_col, comm_out

\* cutr: parse_pos and the three extractors
cutrVars == <<ranges, pos_list, line, record, extracted, cut_pc>>
\* headr: parse_positive_int
headrVars == <<val, positive_int>>
\* wcr: count
wcrVars == <<input, file_info>>
\* lsr: format_mode
lsrVars == <<mode, mode_str>>
\* grepr: find_lines
greprVars == <<text, pattern, found>>
\* uniqr: run
uniqrVars == <<in_file, show_count, prev_line, curr_line, uniq_count, uniq_pos,
               outfile, uniq_ret, uniq_pc>>
\* commr: get_next_line and the loop of run
commrVars == <<file1, file2, file1_lines, file2_lines, insensitive, reported,
               calls, comm_pc, show_col, comm_out>>

\* tailr, all of it
tailrVars == <<value, parsed, take_val, total, start, build, overflowed, pc,
               runVars>>

\* every program but tailr
toolVars == <<cutrVars, headrVars, wcrVars, lsrVars, greprVars, uniqrVars,
              commrVars>>

vars == <<tailrVars, toolVars>>

-----------------------------------------------------------------------------
(* Bounds *)

\* width of the modelled i64 / u64
Bits == 6
\* longest enumerated token handed to parse_num
MaxTokenLen == 4
\* longest enumerated token of the get_args pipeline
MaxArgLen == 2
\* longest list of files given to run
MaxFiles == 2
\* longest enumerated file content, in bytes
MaxContentLen == 3

-----------------------------------------------------------------------------
(* i64 / u64 arithmetic *)

I64_MIN == -(2 ^ (Bits - 1))
I64_MAX == (2 ^ (Bits - 1)) - 1
I64 == I64_MIN .. I64_MAX
U64 == 0 .. (2 ^ Bits) - 1

InI64(x) == I64_MIN <= x /\ x <= I64_MAX

\* the two's-complement value of x in the i64 width
WrapI64(x) == ((x - I64_MIN) % (2 ^ Bits)) + I64_MIN

\* `x as u64` for an i64 x: the same bits read unsigned
AsU64(x) == x % (2 ^ Bits)

Builds == {"debug", "release"}

\* the outcome of an i64 operation whose mathematical result is x:
\* the value kept, whether it overflowed, whether the build panics on it
Checked(x, b) ==
    [v |-> WrapI64(x), ovf |-> ~InI64(x), panic |-> ~InI64(x) /\ b = "debug"]

Max(a, b) == IF a >= b THEN a ELSE b

-----------------------------------------------------------------------------
(* Strings *)

Digits == {"0", "1", "2", "3", "4", "5", "6", "7", "8", "9"}

\* char::to_digit(10)
DigitVal(c) ==
    CASE c = "0" -> 0 [] c = "1" -> 1 [] c = "2" -> 2 [] c = "3" -> 3
      [] c = "4" -> 4 [] c = "5" -> 5 [] c = "6" -> 6 [] c = "7" -> 7
      [] c = "8" -> 8 [] c = "9" -> 9

DigitChar(d) ==
    CASE d = 0 -> "0" [] d = 1 -> "1" [] d = 2 -> "2" [] d = 3 -> "3"
      [] d = 4 -> "4" [] d = 5 -> "5" [] d = 6 -> "6" [] d = 7 -> "7"
      [] d = 8 -> "8" [] d = 9 -> "9"

\* decimal digits of n >= 0, no leading zeros
RECURSIVE NatToString(_)
NatToString(n) ==
    IF n < 10 THEN <<DigitChar(n)>>
    ELSE NatToString(n \div 10) \o <<DigitChar(n % 10)>>

\* i64::to_string
to_string(n) == IF n < 0 THEN <<"-">> \o NatToString(-n) ELSE NatToString(n)

\* the characters tokens are enumerated over
Chars == {"+", "-", "0", "1", "3", "4", ".", "f", "o"}

BoundedSeq(S, n) == UNION {[1 .. k -> S] : k \in 0 .. n}

\* str::starts_with
starts_with(s, c) == Len(s) >= 1 /\ s[1] = c

-----------------------------------------------------------------------------
(* Values *)

PlusZero == [tag |-> "PlusZero", n |-> 0]
TakeNum(v) == [tag |-> "TakeNum", n |-> v]
TakeValue == {PlusZero} \cup {TakeNum(v) : v \in I64}
NoTake == [tag |-> "none", n |-> 0]

None == [tag |-> "None", v |-> 0]
Some(x) == [tag |-> "Some", v |-> x]
Panicked == [tag |-> "Panic", v |-> 0]

Ok(t) == [tag |-> "Ok", take |-> t, err |-> <<>>]
Err(s) == [tag |-> "Err", take |-> NoTake, err |-> s]
Unparsed == [tag |-> "none", take |-> NoTake, err |-> <<>>]

-----------------------------------------------------------------------------
(* str::parse::<i64> *)

\* the digit loop: each step multiplies by ten and adds (subtracts, for a
\* negative literal) the digit, and fails when either leaves the i64 range
RECURSIVE accumulate(_, _, _)
accumulate(digits, acc, neg) ==
    IF digits = <<>> THEN [ok |-> TRUE, v |-> acc]
    ELSE IF Head(digits) \notin Digits THEN [ok |-> FALSE, v |-> 0]
    ELSE LET mul == acc * 10
             nxt == IF neg THEN mul - DigitVal(Head(digits))
                           ELSE mul + DigitVal(Head(digits))
         IN  IF ~InI64(mul) \/ ~InI64(nxt) THEN [ok |-> FALSE, v |-> 0]
             ELSE accumulate(Tail(digits), nxt, neg)

\* as parse_i64, with a negative literal parsed as its magnitude and negated
parse_i64_magnitude(src) ==
    IF src = <<>> THEN [ok |-> FALSE, v |-> 0]
    ELSE IF Len(src) = 1 /\ src[1] \in {"+", "-"} THEN [ok |-> FALSE, v |-> 0]
    ELSE IF src[1] = "+" THEN accumulate(Tail(src), 0, FALSE)
    ELSE IF src[1] = "-"
    THEN LET m == accumulate(Tail(src), 0, FALSE)
         IN  [ok |-> m.ok, v |-> -m.v]
    ELSE accumulate(src, 0, FALSE)

parse_i64(src) ==
    IF src = <<>> THEN [ok |-> FALSE, v |-> 0]
    ELSE IF Len(src) = 1 /\ src[1] \in {"+", "-"} THEN [ok |-> FALSE, v |-> 0]
    ELSE IF src[1] = "+" THEN accumulate(Tail(src), 0, FALSE)
    ELSE IF src[1] = "-" THEN accumulate(Tail(src), 0, TRUE)
    ELSE accumulate(src, 0, FALSE)

-----------------------------------------------------------------------------
(* parse_num *)

\* as negate_positive, with the sign left as parsed
negate_positive_kept(v, b) == Checked(v, b)

\* `if value <= 0 { value } else { -value }`
negate_positive(v, b) == IF v <= 0 THEN Checked(v, b) ELSE Checked(-v, b)

\* as parse_num, with the '+' cut off before the rest is parsed
parse_num_stripped(s, b) ==
    IF s = <<"+", "0">> THEN [res |-> Ok(PlusZero), ovf |-> FALSE, panic |-> FALSE]
    ELSE IF starts_with(s, "+")
    THEN LET p == parse_i64(Tail(s))
         IN  [res |-> IF p.ok THEN Ok(TakeNum(p.v)) ELSE Err(s),
              ovf |-> FALSE, panic |-> FALSE]
    ELSE LET p == parse_i64(s)
             n == negate_positive(p.v, b)
         IN  IF p.ok
             THEN [res |-> Ok(TakeNum(n.v)), ovf |-> n.ovf, panic |-> n.panic]
             ELSE [res |-> Err(s), ovf |-> FALSE, panic |-> FALSE]

\* as parse_num, with the parse error passed on unmapped (`value.parse()?`)
parse_num_unmapped(s, b) ==
    IF s = <<"+", "0">> THEN [res |-> Ok(PlusZero), ovf |-> FALSE, panic |-> FALSE]
    ELSE IF starts_with(s, "+")
    THEN LET p == parse_i64(s)
         IN  [res |-> IF p.ok THEN Ok(TakeNum(p.v)) ELSE Err(<<"invalid digit found in string">>),
              ovf |-> FALSE, panic |-> FALSE]
    ELSE LET p == parse_i64(s)
             n == negate_positive(p.v, b)
         IN  IF p.ok
             THEN [res |-> Ok(TakeNum(n.v)), ovf |-> n.ovf, panic |-> n.panic]
             ELSE [res |-> Err(<<"invalid digit found in string">>),
                   ovf |-> FALSE, panic |-> FALSE]

\* as parse_num, with PlusZero for every zero written with a '+'
parse_num_plus_any_zero(s, b) ==
    IF starts_with(s, "+") /\ parse_i64(s).ok /\ parse_i64(s).v = 0
    THEN [res |-> Ok(PlusZero), ovf |-> FALSE, panic |-> FALSE]
    ELSE IF starts_with(s, "+")
    THEN LET p == parse_i64(s)
         IN  [res |-> IF p.ok THEN Ok(TakeNum(p.v)) ELSE Err(s),
              ovf |-> FALSE, panic |-> FALSE]
    ELSE LET p == parse_i64(s)
             n == negate_positive(p.v, b)
         IN  IF p.ok
             THEN [res |-> Ok(TakeNum(n.v)), ovf |-> n.ovf, panic |-> n.panic]
             ELSE [res |-> Err(s), ovf |-> FALSE, panic |-> FALSE]

parse_num(s, b) ==
    IF s = <<"+", "0">> THEN [res |-> Ok(PlusZero), ovf |-> FALSE, panic |-> FALSE]
    ELSE IF starts_with(s, "+")
    THEN LET p == parse_i64(s)
         IN  [res |-> IF p.ok THEN Ok(TakeNum(p.v)) ELSE Err(s),
              ovf |-> FALSE, panic |-> FALSE]
    ELSE LET p == parse_i64(s)
             n == negate_positive(p.v, b)
         IN  IF p.ok
             THEN [res |-> Ok(TakeNum(n.v)), ovf |-> n.ovf, panic |-> n.panic]
             ELSE [res |-> Err(s), ovf |-> FALSE, panic |-> FALSE]

-----------------------------------------------------------------------------
(* get_start_index *)

\* as start_candidate, without the floor `max(.., 0)`
start_candidate_no_max(tv, tot, b) ==
    IF tv.tag = "PlusZero" THEN [v |-> 0, ovf |-> FALSE, panic |-> FALSE]
    ELSE IF tv.n < 0
    THEN LET s == Checked(tot + tv.n, b)
         IN  [v |-> AsU64(s.v), ovf |-> s.ovf, panic |-> s.panic]
    ELSE LET s == Checked(tv.n - 1, b)
         IN  [v |-> AsU64(s.v), ovf |-> s.ovf, panic |-> s.panic]

\* as start_candidate, without the 1-based to 0-based `- 1`
start_candidate_one_based(tv, tot, b) ==
    IF tv.tag = "PlusZero" THEN [v |-> 0, ovf |-> FALSE, panic |-> FALSE]
    ELSE IF tv.n < 0
    THEN LET s == Checked(tot + tv.n, b)
         IN  [v |-> AsU64(Max(s.v, 0)), ovf |-> s.ovf, panic |-> s.panic]
    ELSE [v |-> AsU64(tv.n), ovf |-> FALSE, panic |-> FALSE]

\* as start_candidate, with PlusZero starting at the last unit (`total - 1`)
start_candidate_last(tv, tot, b) ==
    IF tv.tag = "PlusZero"
    THEN LET s == Checked(tot - 1, b)
         IN  [v |-> AsU64(s.v), ovf |-> s.ovf, panic |-> s.panic]
    ELSE IF tv.n < 0
    THEN LET s == Checked(tot + tv.n, b)
         IN  [v |-> AsU64(Max(s.v, 0)), ovf |-> s.ovf, panic |-> s.panic]
    ELSE LET s == Checked(tv.n - 1, b)
         IN  [v |-> AsU64(s.v), ovf |-> s.ovf, panic |-> s.panic]

\* as start_candidate, with a negative count negated and subtracted
\* (`total - (-val)`)
start_candidate_negating(tv, tot, b) ==
    IF tv.tag = "PlusZero" THEN [v |-> 0, ovf |-> FALSE, panic |-> FALSE]
    ELSE IF tv.n < 0
    THEN LET m == Checked(-tv.n, b)
             s == Checked(tot - m.v, b)
         IN  [v |-> AsU64(Max(s.v, 0)), ovf |-> m.ovf \/ s.ovf,
              panic |-> m.panic \/ s.panic]
    ELSE LET s == Checked(tv.n - 1, b)
         IN  [v |-> AsU64(s.v), ovf |-> s.ovf, panic |-> s.panic]

\* the match on take_val: the candidate start as a u64
start_candidate(tv, tot, b) ==
    IF tv.tag = "PlusZero" THEN [v |-> 0, ovf |-> FALSE, panic |-> FALSE]
    ELSE IF tv.n < 0
    THEN LET s == Checked(tot + tv.n, b)
         IN  [v |-> AsU64(Max(s.v, 0)), ovf |-> s.ovf, panic |-> s.panic]
    ELSE LET s == Checked(tv.n - 1, b)
         IN  [v |-> AsU64(s.v), ovf |-> s.ovf, panic |-> s.panic]

\* as filter_start, without the test `total > 0`
filter_start_unguarded(v, tot) == IF v < AsU64(tot) THEN Some(v) ELSE None

\* `start.filter(|v| total > 0 && *v < total as u64)`
filter_start(v, tot) == IF tot > 0 /\ v < AsU64(tot) THEN Some(v) ELSE None

get_start_index(tv, tot, b) ==
    LET c == start_candidate(tv, tot, b)
    IN  [opt |-> IF c.panic THEN Panicked ELSE filter_start(c.v, tot),
         ovf |-> c.ovf]

-----------------------------------------------------------------------------
(* Byte streams *)

Bytes == {"x", "nl", "C3", "A9"}

\* the bytes of U+FFFD, the replacement character
Replacement == <<"EF", "BF", "BD">>

\* std::str::from_utf8(..).is_ok(): "C3" "A9" is the only multi-byte character
RECURSIVE valid_utf8(_)
valid_utf8(b) ==
    IF b = <<>> THEN TRUE
    ELSE IF b[1] \in {"x", "nl"} THEN valid_utf8(Tail(b))
    ELSE IF b[1] = "C3" /\ Len(b) >= 2 /\ b[2] = "A9"
    THEN valid_utf8(SubSeq(b, 3, Len(b)))
    ELSE FALSE

\* String::from_utf8_lossy: every invalid sequence becomes U+FFFD
RECURSIVE from_utf8_lossy(_)
from_utf8_lossy(b) ==
    IF b = <<>> THEN <<>>
    ELSE IF b[1] \in {"x", "nl"} THEN <<b[1]>> \o from_utf8_lossy(Tail(b))
    ELSE IF b[1] = "C3" /\ Len(b) >= 2 /\ b[2] = "A9"
    THEN <<"C3", "A9">> \o from_utf8_lossy(SubSeq(b, 3, Len(b)))
    ELSE Replacement \o from_utf8_lossy(Tail(b))

\* the position after the line that starts after position p: after its
\* line feed, or the end of the stream
RECURSIVE line_end(_, _)
line_end(content, p) ==
    IF p >= Len(content) THEN Len(content)
    ELSE IF content[p + 1] = "nl" THEN p + 1
    ELSE line_end(content, p + 1)

\* as read_line, with the line feed cut off (as BufRead::lines does)
read_line_stripped(content, p) ==
    LET e == line_end(content, p)
        chunk == SubSeq(content, p + 1, e)
    IN  [ok |-> valid_utf8(chunk),
         line |-> IF chunk # <<>> /\ chunk[Len(chunk)] = "nl"
                  THEN SubSeq(chunk, 1, Len(chunk) - 1) ELSE chunk,
         pos |-> e]

\* BufRead::read_line at position p: the bytes up to and including the next
\* line feed are consumed; they are appended when they are valid UTF-8
read_line(content, p) ==
    LET e == line_end(content, p)
        chunk == SubSeq(content, p + 1, e)
    IN  [ok |-> valid_utf8(chunk), line |-> chunk, pos |-> e]

\* BufRead::lines().count(): one item per line read, failed reads included
RECURSIVE count_lines_from(_, _)
count_lines_from(content, p) ==
    IF p >= Len(content) THEN 0
    ELSE 1 + count_lines_from(content, line_end(content, p))

\* some read of lines().count() fails: count() counts the Err item as a
\* line and goes on
RECURSIVE count_read_fails(_, _)
count_read_fails(content, p) ==
    IF p >= Len(content) THEN FALSE
    ELSE ~read_line(content, p).ok
            \/ count_read_fails(content, line_end(content, p))

\* count_lines_bytes, once metadata and open have succeeded
count_lines_bytes(content) ==
    [lines |-> count_lines_from(content, 0), bytes |-> Len(content)]

-----------------------------------------------------------------------------
(* Values of get_args and run *)

NoArg == [given |-> FALSE, tok |-> <<>>]
Arg(t) == [given |-> TRUE, tok |-> t]

\* `.default_value("10")`
DefaultLines == <<"1", "0">>

NoBytes == [tag |-> "None", take |-> NoTake]
SomeBytes(t) == [tag |-> "Some", take |-> t]

\* no Config: a Config has at least one file
NoConfig == [files |-> <<>>, lines |-> NoTake, bytes |-> NoBytes, quiet |-> FALSE]

NoTotals == [lines |-> 0, bytes |-> 0]

RetNone == [tag |-> "none", msg |-> <<>>]
RetOk == [tag |-> "Ok", msg |-> <<>>]
RetErr(m) == [tag |-> "Err", msg |-> m]

\* one write to stdout, made while file number n of the list is processed
Write(n, k, d) == [file |-> n, kind |-> k, data |-> d]

\* `println!("==> {} <==", filename)`
Header(filename) == <<"==> ", filename, " <==">>

\* one step of run, on file number n of the list
Step(op, n) == [op |-> op, file |-> n]

\* get_args and run are not running
RunIdle ==
    /\ args = [lines |-> NoArg, bytes |-> NoArg, files |-> <<>>, quiet |-> FALSE]
    /\ fs = <<>>
    /\ config = NoConfig
    /\ file_no = 0
    /\ totals = NoTotals
    /\ printed_header = FALSE
    /\ rpos = 0
    /\ offset = 0
    /\ stdout = <<>>
    /\ stderr = <<>>
    /\ ret = RetNone
    /\ rpc = "idle"
    /\ trace = <<>>

\* the other programs are not running
CutrIdle ==
    /\ ranges = <<>>
    /\ pos_list = [tag |-> "none", list |-> <<>>, err |-> <<>>]
    /\ line = <<>>
    /\ record = <<>>
    /\ extracted = [by |-> "none", out |-> <<>>]
    /\ cut_pc = "idle"

HeadrIdle ==
    /\ val = <<>>
    /\ positive_int = [tag |-> "none", n |-> 0, err |-> <<>>]

WcrIdle ==
    /\ input = <<>>
    /\ file_info = [tag |-> "none", num_lines |-> 0, num_words |-> 0,
                    num_bytes |-> 0, num_chars |-> 0]

LsrIdle ==
    /\ mode = 0
    /\ mode_str = <<>>

GreprIdle ==
    /\ text = <<>>
    /\ pattern = [literal |-> <<>>, case_insensitive |-> FALSE]
    /\ found = [inv \in BOOLEAN |-> [tag |-> "none", lines |-> <<>>]]

UniqrIdle ==
    /\ in_file = <<>>
    /\ show_count = FALSE
    /\ prev_line = <<>>
    /\ curr_line = <<>>
    /\ uniq_count = 0
    /\ uniq_pos = 0
    /\ outfile = <<>>
    /\ uniq_ret = [tag |-> "none", msg |-> <<>>]
    /\ uniq_pc = "idle"

CommrIdle ==
    /\ file1 = <<>>
    /\ file2 = <<>>
    /\ file1_lines = <<>>
    /\ file2_lines = <<>>
    /\ insensitive = FALSE
    /\ reported = <<>>
    /\ calls = 0
    /\ comm_pc = "idle"
    /\ show_col = <<FALSE, FALSE, FALSE>>
    /\ comm_out = <<>>

ToolsIdle ==
    CutrIdle /\ HeadrIdle /\ WcrIdle /\ LsrIdle /\ GreprIdle /\ UniqrIdle
        /\ CommrIdle

-----------------------------------------------------------------------------
(* Inputs *)

Numerals == {to_string(n) : n \in I64} \cup {<<"+">> \o to_string(n) : n \in I64}

\* tokens handed to parse_num
Tokens == BoundedSeq(Chars, MaxTokenLen) \cup Numerals

\* tokens of the pipeline get_args -> parse_num -> get_start_index
ArgTokens == BoundedSeq(Chars, MaxArgLen) \cup Numerals

-----------------------------------------------------------------------------
(* Actions *)

\* get_args: `.map(parse_num)` on the token of -n / -c
ParseNum ==
    /\ pc = "parse_num"
    /\ LET r == parse_num(value, build)
       IN  /\ parsed' = IF r.panic THEN Unparsed ELSE r.res
           /\ overflowed' = (overflowed \/ r.ovf)
           /\ take_val' = IF ~r.panic /\ r.res.tag = "Ok" THEN r.res.take ELSE take_val
           /\ pc' = IF r.panic THEN "panicked"
                    ELSE IF r.res.tag = "Ok" THEN "get_start_index"
                    ELSE "parse_error"
    /\ UNCHANGED <<value, total, start, build>>
    /\ UNCHANGED runVars
    /\ UNCHANGED toolVars

\* print_lines / print_bytes: `get_start_index(num, total)`
GetStartIndex ==
    /\ pc = "get_start_index"
    /\ LET r == get_start_index(take_val, total, build)
       IN  /\ start' = r.opt
           /\ overflowed' = (overflowed \/ r.ovf)
           /\ pc' = IF r.opt.tag = "Panic" THEN "panicked" ELSE "done"
    /\ UNCHANGED <<value, parsed, take_val, total, build>>
    /\ UNCHANGED runVars
    /\ UNCHANGED toolVars

-----------------------------------------------------------------------------
(* Specifications *)

\* the pipeline: a token is parsed, the take value is resolved against a total
Init ==
    /\ value \in ArgTokens
    /\ parsed = Unparsed
    /\ take_val = NoTake
    /\ total \in I64
    /\ start = None
    /\ build \in Builds
    /\ overflowed = FALSE
    /\ pc = "parse_num"
    /\ RunIdle
    /\ ToolsIdle

Next == ParseNum \/ GetStartIndex

Spec == Init /\ [][Next]_vars

\* parse_num alone on every token
InitParseNum ==
    /\ value \in Tokens
    /\ parsed = Unparsed
    /\ take_val = NoTake
    /\ total = 0
    /\ start = None
    /\ build \in Builds
    /\ overflowed = FALSE
    /\ pc = "parse_num"
    /\ RunIdle
    /\ ToolsIdle

SpecParseNum == InitParseNum /\ [][ParseNum]_vars

\* get_start_index alone on every take value and every total
InitGetStartIndex ==
    /\ value = <<>>
    /\ parsed = Unparsed
    /\ take_val \in TakeValue
    /\ total \in I64
    /\ start = None
    /\ build \in Builds
    /\ overflowed = FALSE
    /\ pc = "get_start_index"
    /\ RunIdle
    /\ ToolsIdle

SpecGetStartIndex == InitGetStartIndex /\ [][GetStartIndex]_vars

-----------------------------------------------------------------------------
(* get_args *)

\* the token of -n: the one given, or the default
lines_token(a) == IF a.lines.given THEN a.lines.tok ELSE DefaultLines

\* as get_args, with a byte count that does not parse dropped (`.ok()`)
get_args_lenient(a, b) ==
    LET l == parse_num(lines_token(a), b)
        c == parse_num(a.bytes.tok, b)
    IN  IF l.panic \/ (a.bytes.given /\ c.panic)
        THEN [config |-> NoConfig, ret |-> RetNone, panic |-> TRUE]
        ELSE IF l.res.tag = "Err"
        THEN [config |-> NoConfig,
              ret |-> RetErr(<<"illegal line count -- ", l.res.err>>),
              panic |-> FALSE]
        ELSE [config |-> [files |-> a.files,
                          lines |-> l.res.take,
                          bytes |-> IF a.bytes.given /\ c.res.tag = "Ok"
                                    THEN SomeBytes(c.res.take)
                                    ELSE NoBytes,
                          quiet |-> a.quiet],
              ret |-> RetNone,
              panic |-> FALSE]

\* get_args, from the parse of the line count on: the Config, or the error
get_args(a, b) ==
    LET l == parse_num(lines_token(a), b)
        c == parse_num(a.bytes.tok, b)
    IN  IF l.panic \/ (a.bytes.given /\ c.panic)
        THEN [config |-> NoConfig, ret |-> RetNone, panic |-> TRUE]
        ELSE IF l.res.tag = "Err"
        THEN [config |-> NoConfig,
              ret |-> RetErr(<<"illegal line count -- ", l.res.err>>),
              panic |-> FALSE]
        ELSE IF a.bytes.given /\ c.res.tag = "Err"
        THEN [config |-> NoConfig,
              ret |-> RetErr(<<"illegal byte count -- ", c.res.err>>),
              panic |-> FALSE]
        ELSE [config |-> [files |-> a.files,
                          lines |-> l.res.take,
                          bytes |-> IF a.bytes.given THEN SomeBytes(c.res.take)
                                    ELSE NoBytes,
                          quiet |-> a.quiet],
              ret |-> RetNone,
              panic |-> FALSE]

GetArgs ==
    /\ rpc = "get_args"
    /\ LET r == get_args(args, build)
       IN  /\ config' = r.config
           /\ ret' = r.ret
           /\ rpc' = IF r.panic THEN "panicked"
                     ELSE IF r.ret.tag = "Err" THEN "returned"
                     ELSE "open"
           /\ file_no' = IF r.config # NoConfig THEN 1 ELSE file_no
    /\ UNCHANGED <<args, fs, totals, printed_header, rpos, offset, stdout,
                   stderr, trace, start, build, overflowed>>
    /\ UNCHANGED unitVars
    /\ UNCHANGED toolVars

-----------------------------------------------------------------------------
(* run *)

\* the file of the list being processed
filename == config.files[file_no]

IoError == RetErr(<<"io error">>)

\* as Fail, with the error kept and the loop going on
Fail_continue(e) ==
    /\ ret' = e
    /\ rpc' = "open"

\* run returns the error of a `?`
Fail(e) ==
    /\ ret' = e
    /\ rpc' = "returned"

\* the body of the loop is over for this file: on to the next
NextFile ==
    /\ file_no' = file_no + 1
    /\ rpc' = "open"

\* as OpenFile, with the error of the open returned (`File::open(filename)?`)
OpenFile_fatal ==
    /\ rpc = "open"
    /\ file_no <= Len(config.files)
    /\ trace' = Append(trace, Step("open", file_no))
    /\ IF fs[filename].exists
       THEN /\ rpc' = "count"
            /\ rpos' = 0
            /\ UNCHANGED <<stderr, file_no, ret>>
       ELSE /\ Fail(RetErr(<<"No such file or directory">>))
            /\ UNCHANGED <<stderr, file_no, rpos>>
    /\ UNCHANGED <<args, fs, config, totals, printed_header, offset, stdout,
                   start, build, overflowed>>
    /\ UNCHANGED unitVars
    /\ UNCHANGED toolVars

\* `match File::open(filename)`: an error goes to stderr and the loop goes on
OpenFile ==
    /\ rpc = "open"
    /\ file_no <= Len(config.files)
    /\ trace' = Append(trace, Step("open", file_no))
    /\ IF fs[filename].exists
       THEN /\ rpc' = "count"
            /\ rpos' = 0
            /\ UNCHANGED <<stderr, file_no>>
       ELSE /\ stderr' = Append(stderr, <<filename, ": ", "No such file or directory">>)
            /\ NextFile
            /\ UNCHANGED rpos
    /\ UNCHANGED <<args, fs, config, totals, printed_header, offset, stdout,
                   ret, start, build, overflowed>>
    /\ UNCHANGED unitVars
    /\ UNCHANGED toolVars

\* the list is exhausted: `Ok(())`
RunReturn ==
    /\ rpc = "open"
    /\ file_no > Len(config.files)
    /\ ret' = RetOk
    /\ rpc' = "returned"
    /\ UNCHANGED <<args, fs, config, file_no, totals, printed_header, rpos,
                   offset, stdout, stderr, trace, start, build, overflowed>>
    /\ UNCHANGED unitVars
    /\ UNCHANGED toolVars

\* `count_lines_bytes(filename)?`: metadata or the second open may fail
CountLinesBytes ==
    /\ rpc = "count"
    /\ \E failed \in BOOLEAN :
          IF failed
          THEN /\ Fail(IoError)
               /\ trace' = Append(trace, Step("count", file_no))
               /\ UNCHANGED totals
          ELSE /\ totals' = count_lines_bytes(fs[filename].content)
               /\ trace' = trace \o <<Step("count", file_no)>> \o
                              (IF count_read_fails(fs[filename].content, 0)
                               THEN <<Step("count_read_error", file_no)>>
                               ELSE <<>>)
               /\ rpc' = "header"
               /\ UNCHANGED ret
    /\ UNCHANGED <<args, fs, config, file_no, printed_header, rpos, offset,
                   stdout, stderr, start, build, overflowed>>
    /\ UNCHANGED unitVars
    /\ UNCHANGED toolVars

\* as print_header, with the blank line before the first header only
print_header_inverted(out, n, name, first) ==
    (IF first THEN Append(out, Write(n, "blank", <<>>)) ELSE out)
        \o <<Write(n, "header", Header(name))>>

\* the closure print_header: a blank line unless first, then the header
print_header(out, n, name, first) ==
    (IF ~first THEN Append(out, Write(n, "blank", <<>>)) ELSE out)
        \o <<Write(n, "header", Header(name))>>

\* `if config.files.len() > 1 && !config.quiet`
PrintHeader ==
    /\ rpc = "header"
    /\ IF Len(config.files) > 1 /\ ~config.quiet
       THEN /\ stdout' = print_header(stdout, file_no, filename, ~printed_header)
            /\ printed_header' = TRUE
            /\ trace' = Append(trace, Step("header", file_no))
       ELSE UNCHANGED <<stdout, printed_header, trace>>
    /\ rpc' = "resolve"
    /\ UNCHANGED <<args, fs, config, file_no, totals, rpos, offset, stderr,
                   ret, start, build, overflowed>>
    /\ UNCHANGED unitVars
    /\ UNCHANGED toolVars

\* as emitter, with the byte count ignored
emitter_lines(c) == "print_lines"

\* the emitter run calls: print_bytes if a byte count is given
emitter(c) == IF c.bytes.tag = "Some" THEN "print_bytes" ELSE "print_lines"

\* the call of get_start_index that opens print_lines and print_bytes
resolve(c, t, b) ==
    IF emitter(c) = "print_bytes"
    THEN get_start_index(c.bytes.take, t.bytes, b)
    ELSE get_start_index(c.lines, t.lines, b)

\* as Resolve, with None read as the start of the file (`unwrap_or(0)`)
Resolve_from_zero ==
    /\ rpc = "resolve"
    /\ trace' = Append(trace, Step("resolve", file_no))
    /\ LET r == resolve(config, totals, build)
       IN  /\ start' = r.opt
           /\ overflowed' = (overflowed \/ r.ovf)
           /\ IF r.opt.tag = "Panic"
              THEN /\ rpc' = "panicked"
                   /\ UNCHANGED <<offset, file_no>>
              ELSE /\ offset' = r.opt.v
                   /\ rpc' = IF emitter(config) = "print_bytes" THEN "seek"
                             ELSE IF r.opt.v > 0 THEN "skip"
                             ELSE "emit"
                   /\ UNCHANGED file_no
    /\ UNCHANGED <<args, fs, config, totals, printed_header, rpos, stdout,
                   stderr, ret, build>>
    /\ UNCHANGED unitVars
    /\ UNCHANGED toolVars

\* `if let Some(offset) = get_start_index(..)`: None returns Ok(()) at once
Resolve ==
    /\ rpc = "resolve"
    /\ trace' = Append(trace, Step("resolve", file_no))
    /\ LET r == resolve(config, totals, build)
       IN  /\ start' = r.opt
           /\ overflowed' = (overflowed \/ r.ovf)
           /\ IF r.opt.tag = "Panic"
              THEN /\ rpc' = "panicked"
                   /\ UNCHANGED <<offset, file_no>>
              ELSE IF r.opt.tag = "None"
              THEN /\ NextFile
                   /\ UNCHANGED offset
              ELSE /\ offset' = r.opt.v
                   /\ rpc' = IF emitter(config) = "print_bytes" THEN "seek"
                             ELSE IF r.opt.v > 0 THEN "skip"
                             ELSE "emit"
                   /\ UNCHANGED file_no
    /\ UNCHANGED <<args, fs, config, totals, printed_header, rpos, stdout,
                   stderr, ret, build>>
    /\ UNCHANGED unitVars
    /\ UNCHANGED toolVars

\* print_lines, `while offset > 0`: one line is read and dropped
SkipLine ==
    /\ rpc = "skip"
    /\ trace' = Append(trace, Step("skip", file_no))
    /\ \E failed \in BOOLEAN :
          LET r == read_line(fs[filename].content, rpos)
          IN  /\ rpos' = r.pos
              /\ IF failed \/ ~r.ok
                 THEN /\ Fail(IoError)
                      /\ UNCHANGED offset
                 ELSE /\ offset' = offset - 1
                      /\ rpc' = IF offset - 1 > 0 THEN "skip" ELSE "emit"
                      /\ UNCHANGED ret
    /\ UNCHANGED <<args, fs, config, file_no, totals, printed_header, stdout,
                   stderr, start, build, overflowed>>
    /\ UNCHANGED unitVars
    /\ UNCHANGED toolVars

\* print_lines, `loop`: one line is read and printed; an empty read ends it
EmitLine ==
    /\ rpc = "emit"
    /\ \E failed \in BOOLEAN :
          LET r == read_line(fs[filename].content, rpos)
          IN  /\ rpos' = r.pos
              /\ IF failed \/ ~r.ok
                 THEN /\ Fail(IoError)
                      /\ trace' = Append(trace, Step("read", file_no))
                      /\ UNCHANGED <<stdout, file_no>>
                 ELSE IF r.line = <<>>
                 THEN /\ NextFile
                      /\ trace' = Append(trace, Step("read", file_no))
                      /\ UNCHANGED <<stdout, ret>>
                 ELSE /\ stdout' = Append(stdout, Write(file_no, "content", r.line))
                      /\ trace' = Append(trace, Step("print_lines", file_no))
                      /\ UNCHANGED <<rpc, ret, file_no>>
    /\ UNCHANGED <<args, fs, config, totals, printed_header, offset, stderr,
                   start, build, overflowed>>
    /\ UNCHANGED unitVars
    /\ UNCHANGED toolVars

\* as Seek, with the position left where it is
Seek_nowhere ==
    /\ rpc = "seek"
    /\ trace' = Append(trace, Step("seek", file_no))
    /\ \E failed \in BOOLEAN :
          IF failed
          THEN /\ Fail(IoError)
               /\ UNCHANGED rpos
          ELSE /\ rpos' = rpos
               /\ rpc' = "read_to_end"
               /\ UNCHANGED ret
    /\ UNCHANGED <<args, fs, config, file_no, totals, printed_header, offset,
                   stdout, stderr, start, build, overflowed>>
    /\ UNCHANGED unitVars
    /\ UNCHANGED toolVars

\* print_bytes: `file.seek(SeekFrom::Start(offset))?`
Seek ==
    /\ rpc = "seek"
    /\ trace' = Append(trace, Step("seek", file_no))
    /\ \E failed \in BOOLEAN :
          IF failed
          THEN /\ Fail(IoError)
               /\ UNCHANGED rpos
          ELSE /\ rpos' = offset
               /\ rpc' = "read_to_end"
               /\ UNCHANGED ret
    /\ UNCHANGED <<args, fs, config, file_no, totals, printed_header, offset,
                   stdout, stderr, start, build, overflowed>>
    /\ UNCHANGED unitVars
    /\ UNCHANGED toolVars

\* what print_bytes prints of the bytes read
rendered(buf) == from_utf8_lossy(buf)

\* print_bytes: `file.read_to_end(&mut buf)?` and the print of the buffer
ReadToEnd ==
    /\ rpc = "read_to_end"
    /\ \E failed \in BOOLEAN :
          LET content == fs[filename].content
              buf == SubSeq(content, rpos + 1, Len(content))
          IN  IF failed
              THEN /\ Fail(IoError)
                   /\ trace' = Append(trace, Step("read", file_no))
                   /\ UNCHANGED <<stdout, rpos, file_no>>
              ELSE /\ rpos' = Len(content)
                   /\ stdout' = IF buf = <<>> THEN stdout
                                ELSE Append(stdout, Write(file_no, "content", rendered(buf)))
                   /\ trace' = Append(trace, Step("print_bytes", file_no))
                   /\ NextFile
                   /\ UNCHANGED ret
    /\ UNCHANGED <<args, fs, config, totals, printed_header, offset, stderr,
                   start, build, overflowed>>
    /\ UNCHANGED unitVars
    /\ UNCHANGED toolVars

-----------------------------------------------------------------------------
(* Specifications of get_args and run *)

\* tokens given to -n and -c
RunTokens ==
    {<<"+", "0">>, <<"0">>, <<"1">>, <<"2">>, <<"-", "3">>, <<"+", "1">>,
     <<"+", "2">>, <<"+", "3">>, <<"f">>, <<"+", "-", "1">>}

\* -n and -c exclude each other (`conflicts_with`)
RunArgs(tokens, lists) ==
    {[lines |-> l, bytes |-> c, files |-> f, quiet |-> q] :
        l \in {NoArg} \cup {Arg(t) : t \in tokens},
        c \in {NoArg} \cup {Arg(t) : t \in tokens},
        f \in lists, q \in BOOLEAN}

Missing == [exists |-> FALSE, content |-> <<>>]
File(c) == [exists |-> TRUE, content |-> c]

\* get_args and run have not started
RunStart ==
    /\ config = NoConfig
    /\ file_no = 0
    /\ totals = NoTotals
    /\ printed_header = FALSE
    /\ rpos = 0
    /\ offset = 0
    /\ stdout = <<>>
    /\ stderr = <<>>
    /\ ret = RetNone
    /\ rpc = "get_args"
    /\ trace = <<>>
    /\ start = None
    /\ overflowed = FALSE
    /\ value = <<>>
    /\ parsed = Unparsed
    /\ take_val = NoTake
    /\ total = 0
    /\ pc = "idle"

NextRun ==
    \/ GetArgs
    \/ OpenFile
    \/ RunReturn
    \/ CountLinesBytes
    \/ PrintHeader
    \/ Resolve
    \/ SkipLine
    \/ EmitLine
    \/ Seek
    \/ ReadToEnd

\* several files of a few contents
FileNames == {"a", "b"}

RunContents ==
    {<<>>, <<"x", "nl">>, <<"x", "nl", "x">>, <<"x", "nl", "A9", "nl">>}

InitRun ==
    /\ args \in {a \in RunArgs(RunTokens, BoundedSeq(FileNames, MaxFiles)) :
                    /\ ~(a.lines.given /\ a.bytes.given)
                    /\ a.files # <<>>}
    /\ fs \in [FileNames -> {Missing} \cup {File(c) : c \in RunContents}]
    /\ build \in Builds
    /\ RunStart
    /\ ToolsIdle

SpecRun == InitRun /\ [][NextRun]_vars

\* the tokens of one file: those of several, and the other spellings of zero
EmitTokens ==
    RunTokens \cup {<<"-", "0">>, <<"0", "0">>, <<"+", "0", "0">>}

\* one file of every content
InitEmit ==
    /\ args \in {a \in RunArgs(EmitTokens, {<<"a">>}) :
                    ~(a.lines.given /\ a.bytes.given) /\ ~a.quiet}
    /\ fs \in [{"a"} -> {Missing} \cup {File(c) : c \in BoundedSeq(Bytes, MaxContentLen)}]
    /\ build \in Builds
    /\ RunStart
    /\ ToolsIdle

SpecEmit == InitEmit /\ [][NextRun]_vars

-----------------------------------------------------------------------------
(* Integer literals, as written *)

\* one or more decimal digits
IsUnsigned(s) == Len(s) >= 1 /\ \A i \in 1 .. Len(s) : s[i] \in Digits

\* an optional single sign, then one or more decimal digits
IsIntLiteral(s) ==
    \/ IsUnsigned(s)
    \/ Len(s) >= 2 /\ s[1] \in {"+", "-"} /\ IsUnsigned(Tail(s))

\* the number a run of digits denotes
RECURSIVE NatValue(_)
NatValue(s) ==
    IF s = <<>> THEN 0
    ELSE 10 * NatValue(SubSeq(s, 1, Len(s) - 1)) + DigitVal(s[Len(s)])

\* the number an integer literal denotes
LiteralValue(s) ==
    IF s[1] = "-" THEN -NatValue(Tail(s))
    ELSE IF s[1] = "+" THEN NatValue(Tail(s))
    ELSE NatValue(s)

\* the token denotes a number of the i64 range
ParsesAsI64(s) == IsIntLiteral(s) /\ InI64(LiteralValue(s))

-----------------------------------------------------------------------------
(* Claims about get_start_index, under SpecGetStartIndex *)

\* C1: for every take value and every total <= 0, get_start_index returns
\* None.
C1_NoneForNonPositiveTotal ==
    (pc # "get_start_index" /\ total <= 0) => (pc = "done" /\ start = None)

\* C2: whenever get_start_index returns Some(start), total > 0 and
\* 0 <= start < total.
C2_SomeIsIndexBelowTotal ==
    (pc = "done" /\ start.tag = "Some")
        => (total > 0 /\ 0 <= start.v /\ start.v < total)

C2_Witness ==
    /\ pc = "done"
    /\ take_val = TakeNum(-3)
    /\ total = 10
    /\ start = Some(7)

\* C3: for every total > 0 and every v < 0, get_start_index(TakeNum(v), total)
\* returns Some(max(total + v, 0)).
C3_NegativeCountsFromEnd ==
    (pc # "get_start_index" /\ total > 0
        /\ take_val.tag = "TakeNum" /\ take_val.n < 0)
        => /\ pc = "done"
           /\ start = Some(IF total + take_val.n > 0 THEN total + take_val.n ELSE 0)

C3_Witness ==
    /\ pc = "done"
    /\ take_val = TakeNum(-20)
    /\ total = 10
    /\ start = Some(0)

\* C4: for every total > 0 and every v >= 0, get_start_index(TakeNum(v), total)
\* returns None when v = 0 or v > total and Some(v - 1) when 1 <= v <= total.
C4_NonNegativeCountsFromStart ==
    (pc # "get_start_index" /\ total > 0
        /\ take_val.tag = "TakeNum" /\ take_val.n >= 0)
        => /\ pc = "done"
           /\ start = IF take_val.n = 0 \/ take_val.n > total
                      THEN None
                      ELSE Some(take_val.n - 1)

C4_Witness ==
    /\ pc = "done"
    /\ take_val = TakeNum(3)
    /\ total = 10
    /\ start = Some(2)

-----------------------------------------------------------------------------
(* Claims about parse_num followed by get_start_index, under Spec *)

\* C6: the string of i64::MIN parses to TakeNum(i64::MIN), which resolves to
\* Some(0) for every total > 0, and no step of parse_num or get_start_index
\* overflows (a negation of i64::MIN would) on the way.
C6_MinResolvesWithoutOverflow ==
    (value = to_string(I64_MIN) /\ total > 0)
        => /\ pc \notin {"parse_error", "panicked"}
           /\ ~overflowed
           /\ pc # "parse_num" => take_val = TakeNum(I64_MIN)
           /\ pc = "done" => start = Some(0)

C6_Witness ==
    /\ pc = "done"
    /\ value = to_string(I64_MIN)
    /\ take_val = TakeNum(I64_MIN)
    /\ total = 10
    /\ start = Some(0)

-----------------------------------------------------------------------------
(* Claims about parse_num, under SpecParseNum *)

\* C7: for every token without a leading '+' that parses as an integer v,
\* parse_num returns TakeNum(-v) when v > 0 and TakeNum(v) when v <= 0.
C7_BareTokenCountsFromEnd ==
    (pc # "parse_num" /\ ~starts_with(value, "+") /\ ParsesAsI64(value))
        => parsed = Ok(TakeNum(IF LiteralValue(value) > 0
                               THEN -LiteralValue(value)
                               ELSE LiteralValue(value)))

C7_Witness ==
    /\ pc = "get_start_index"
    /\ value = <<"3">>
    /\ parsed = Ok(TakeNum(-3))

\* C8 as stated: for every token that starts with '+' followed by a valid
\* signed or unsigned integer literal, other than "+0", parse_num returns
\* TakeNum(value).
C8_PlusThenAnyLiteral ==
    (pc # "parse_num" /\ starts_with(value, "+") /\ value # <<"+", "0">>
        /\ ParsesAsI64(Tail(value)))
        => parsed = Ok(TakeNum(LiteralValue(Tail(value))))

\* C8 as amended: for every token that is '+' followed by an unsigned integer
\* literal of the i64 range, other than "+0", parse_num returns
\* TakeNum(value); '+' followed by a signed literal is rejected with the
\* token as the error.
C8_PlusThenUnsignedLiteral ==
    /\ (pc # "parse_num" /\ starts_with(value, "+") /\ value # <<"+", "0">>
          /\ IsUnsigned(Tail(value)) /\ ParsesAsI64(Tail(value)))
          => parsed = Ok(TakeNum(LiteralValue(Tail(value))))
    /\ (pc # "parse_num" /\ starts_with(value, "+")
          /\ ~IsUnsigned(Tail(value)) /\ ParsesAsI64(Tail(value)))
          => (pc = "parse_error" /\ parsed = Err(value))

C8_Witness ==
    /\ pc = "get_start_index"
    /\ value = <<"+", "3">>
    /\ parsed = Ok(TakeNum(3))

\* C9: the string of i64::MAX gives TakeNum(-i64::MAX) = TakeNum(i64::MIN + 1),
\* "+" followed by it gives TakeNum(i64::MAX), the string of i64::MIN gives
\* TakeNum(i64::MIN), and nothing overflows.
C9_BoundaryTokens ==
    pc # "parse_num" =>
        /\ value = to_string(I64_MAX)
              => parsed = Ok(TakeNum(-I64_MAX)) /\ parsed = Ok(TakeNum(I64_MIN + 1))
        /\ value = <<"+">> \o to_string(I64_MAX) => parsed = Ok(TakeNum(I64_MAX))
        /\ value = to_string(I64_MIN) => parsed = Ok(TakeNum(I64_MIN))
        /\ value \in {to_string(I64_MAX), <<"+">> \o to_string(I64_MAX),
                      to_string(I64_MIN)}
              => ~overflowed /\ pc = "get_start_index"

C9_Witness ==
    /\ pc = "get_start_index"
    /\ value = to_string(I64_MIN)
    /\ parsed = Ok(TakeNum(I64_MIN))

\* C10: for every token that is not an integer literal, parse_num returns an
\* error whose message is exactly the token, and no TakeValue.
C10_ErrorIsTheToken ==
    (pc # "parse_num" /\ ~IsIntLiteral(value))
        => /\ pc = "parse_error"
           /\ parsed.tag = "Err"
           /\ parsed.err = value
           /\ parsed.take = NoTake
           /\ take_val = NoTake

C10_Witness ==
    /\ pc = "parse_error"
    /\ value = <<"3", ".", "1", "4">>
    /\ parsed = Err(<<"3", ".", "1", "4">>)

-----------------------------------------------------------------------------
(* Helpers of the claims about get_args and run *)

\* the steps of the trace named op
StepsOf(op) == {k \in 1 .. Len(trace) : trace[k].op = op}

\* the step op was taken on file number n
Took(op, n) == \E k \in 1 .. Len(trace) : trace[k] = Step(op, n)

\* the numbers of the listed files that cannot be opened, among the first n
MissingUpTo(n) == {k \in 1 .. n : ~fs[args.files[k]].exists}

\* the last file the loop has gone past
Passed == IF rpc = "open" \/ (rpc = "returned" /\ ret = RetOk)
          THEN file_no - 1 ELSE file_no

-----------------------------------------------------------------------------
(* Claims about get_args and run, under SpecRun *)

\* C11: a take value that does not parse is fatal at startup: get_args fails
\* with "illegal line count -- <token>" or "illegal byte count -- <token>",
\* no Config is produced, no file is opened and nothing is printed.
C11_IllegalCountIsFatal ==
    rpc # "get_args" =>
        /\ ~ParsesAsI64(lines_token(args))
              => /\ rpc = "returned"
                 /\ ret = RetErr(<<"illegal line count -- ", lines_token(args)>>)
        /\ (ParsesAsI64(lines_token(args)) /\ args.bytes.given
              /\ ~ParsesAsI64(args.bytes.tok))
              => /\ rpc = "returned"
                 /\ ret = RetErr(<<"illegal byte count -- ", args.bytes.tok>>)
        /\ (~ParsesAsI64(lines_token(args))
              \/ (args.bytes.given /\ ~ParsesAsI64(args.bytes.tok)))
              => /\ config = NoConfig
                 /\ trace = <<>>
                 /\ stdout = <<>>
                 /\ stderr = <<>>

C11_Witness ==
    /\ rpc = "returned"
    /\ args.bytes = Arg(<<"+", "-", "1">>)
    /\ ret = RetErr(<<"illegal byte count -- ", <<"+", "-", "1">>>>)
    /\ config = NoConfig

\* C12: a listed file that cannot be opened is not fatal: one line
\* "<filename>: <error>" goes to stderr for it, nothing goes to stdout for it,
\* the next file of the list is processed, and run returns Ok when every
\* other call succeeds.
C12_OpenFailureIsSkipped ==
    config # NoConfig =>
        /\ Len(stderr) = Cardinality(MissingUpTo(Passed))
        /\ \A k \in 1 .. Len(stderr) :
              /\ Len(stderr[k]) = 3
              /\ stderr[k][2] = ": "
              /\ \E n \in MissingUpTo(Passed) : stderr[k][1] = config.files[n]
        /\ \A k \in 1 .. Len(stdout) : fs[config.files[stdout[k].file]].exists
        /\ \A n \in MissingUpTo(Len(config.files)) :
              Took("open", n) =>
                 /\ file_no > n
                 /\ ~Took("count", n)
                 /\ (rpc = "returned" /\ n < Len(config.files))
                       => Took("open", n + 1)
        /\ (rpc = "returned" /\ ret.tag = "Err") => fs[filename].exists
        /\ (rpc = "returned" /\ MissingUpTo(Len(config.files)) = 1 .. Len(config.files))
              => ret = RetOk

C12_Witness ==
    /\ rpc = "returned"
    /\ ret = RetOk
    /\ config.files = <<"a", "b">>
    /\ ~fs["a"].exists
    /\ fs["b"].exists
    /\ Len(stderr) = 1
    /\ stderr[1][1] = "a"
    /\ Took("print_lines", 2)

\* C13: an I/O failure after a file was opened (while its lines and bytes are
\* counted, in the seek or in a read) is fatal: run returns the error.
C13_IoFailureIsFatal ==
    (rpc = "returned" /\ StepsOf("count_read_error") # {}) => ret.tag = "Err"

\* C14 as stated: after any error on file N of the list, an open failure or
\* an I/O error, file N+1 is still processed.
C14_EveryFileIsProcessed ==
    (rpc = "returned" /\ config # NoConfig)
        => \A n \in 1 .. Len(config.files) : Took("open", n)

\* C14 as amended: after an open failure on file N the error is logged and
\* file N+1 is processed; after an I/O error on an opened file (a failed
\* metadata, seek or read) run returns the error and no later file is
\* processed.
C14_OnlyOpenFailuresAreSkipped ==
    /\ ret = IoError => rpc = "returned"
    /\ (rpc = "returned" /\ ret = RetOk)
          => \A n \in 1 .. Len(config.files) : Took("open", n)
    /\ (rpc = "returned" /\ ret = IoError)
          => /\ file_no <= Len(config.files)
             /\ trace[Len(trace)].file = file_no
             /\ \A n \in 1 .. Len(config.files) : Took("open", n) <=> n <= file_no
             /\ \A k \in 1 .. Len(stdout) : stdout[k].file <= file_no
    /\ \A n \in 1 .. Len(config.files) :
          (Took("open", n) /\ ~fs[config.files[n]].exists /\ n < Len(config.files)
              /\ rpc = "returned")
              => Took("open", n + 1)

C14_Witness ==
    /\ rpc = "returned"
    /\ ret = IoError
    /\ config.files = <<"a", "b">>
    /\ file_no = 1
    /\ Took("print_lines", 1)
    /\ ~Took("open", 2)

-----------------------------------------------------------------------------
(* Lines and text, as defined *)

\* the positions that end a line: every line feed, and the last byte
LineEnds(c) == {k \in 1 .. Len(c) : c[k] = "nl" \/ k = Len(c)}

NumLines(c) == Cardinality(LineEnds(c))

\* the position that ends line j (1-based)
EndOf(c, j) ==
    CHOOSE e \in LineEnds(c) : Cardinality({x \in LineEnds(c) : x <= e}) = j

\* line j (1-based) with its line feed, if it has one
LineOf(c, j) ==
    SubSeq(c, IF j = 1 THEN 1 ELSE EndOf(c, j - 1) + 1, EndOf(c, j))

\* the bytes from offset n (0-based) to the end
SuffixFrom(c, n) == SubSeq(c, n + 1, Len(c))

\* byte k is not part of a character: a "C3" without its "A9", or an "A9"
\* without its "C3"
Stray(c, k) ==
    \/ c[k] = "C3" /\ (k = Len(c) \/ c[k + 1] # "A9")
    \/ c[k] = "A9" /\ (k = 1 \/ c[k - 1] # "C3")

IsText(c) == \A k \in 1 .. Len(c) : ~Stray(c, k)

\* c with every stray byte replaced by U+FFFD
RECURSIVE ReplacedFrom(_, _)
ReplacedFrom(c, k) ==
    IF k > Len(c) THEN <<>>
    ELSE (IF Stray(c, k) THEN Replacement ELSE <<c[k]>>) \o ReplacedFrom(c, k + 1)

\* all the bytes written to stdout
RECURSIVE Flat(_)
Flat(w) == IF w = <<>> THEN <<>> ELSE Head(w).data \o Flat(Tail(w))

\* the one file of SpecEmit
TheFile == fs["a"].content

-----------------------------------------------------------------------------
(* Claims about print_lines and print_bytes, under SpecEmit *)

\* C15: when the start is Some(start), print_lines drops exactly start lines
\* and then writes every remaining line as it is, in order, to the end: the
\* output is lines start.. of the stream, the last one without a line feed if
\* it has none.
C15_PrintLinesWritesTheTail ==
    (Took("resolve", 1) /\ emitter(config) = "print_lines" /\ start.tag = "Some")
        => /\ Cardinality(StepsOf("skip")) <= start.v
           /\ stdout # <<>> => Cardinality(StepsOf("skip")) = start.v
           /\ \A k \in 1 .. Len(stdout) :
                 stdout[k] = Write(1, "content", LineOf(TheFile, start.v + k))
           /\ (rpc = "returned" /\ ret = RetOk)
                 => /\ Cardinality(StepsOf("skip")) = start.v
                    /\ Len(stdout) = NumLines(TheFile) - start.v
                    /\ Flat(stdout) = SuffixFrom(TheFile, Len(TheFile) - Len(Flat(stdout)))

C15_Witness ==
    /\ rpc = "returned"
    /\ ret = RetOk
    /\ TheFile = <<"nl", "x", "nl">>
    /\ config.lines = TakeNum(2)
    /\ config.bytes = NoBytes
    /\ start = Some(1)
    /\ Cardinality(StepsOf("skip")) = 1
    /\ stdout = <<Write(1, "content", <<"x", "nl">>)>>

\* C16 as stated: when the start is Some(start), the output of print_bytes is
\* byte for byte the suffix of the file from offset start, also when the
\* suffix is not valid UTF-8.
C16_PrintBytesWritesRawSuffix ==
    (rpc = "returned" /\ ret = RetOk /\ Took("resolve", 1)
        /\ emitter(config) = "print_bytes" /\ start.tag = "Some")
        => Flat(stdout) = SuffixFrom(TheFile, start.v)

\* C16 as amended: when the start is Some(start), print_bytes seeks to offset
\* start and prints the suffix from there with every byte that is not part
\* of a valid UTF-8 character replaced by U+FFFD: byte for byte the suffix
\* (total_bytes - start bytes) exactly when the suffix is valid UTF-8.
C16_PrintBytesWritesLossySuffix ==
    (rpc = "returned" /\ ret = RetOk /\ Took("resolve", 1)
        /\ emitter(config) = "print_bytes" /\ start.tag = "Some")
        => /\ start.v < totals.bytes
           /\ totals.bytes = Len(TheFile)
           /\ Flat(stdout) = ReplacedFrom(SuffixFrom(TheFile, start.v), 1)
           /\ IsText(SuffixFrom(TheFile, start.v))
                 <=> Flat(stdout) = SuffixFrom(TheFile, start.v)
           /\ IsText(SuffixFrom(TheFile, start.v))
                 => Len(Flat(stdout)) = totals.bytes - start.v

C16_Witness ==
    /\ rpc = "returned"
    /\ ret = RetOk
    /\ TheFile = <<"x", "C3", "A9">>
    /\ config.bytes = SomeBytes(TakeNum(3))
    /\ start = Some(2)
    /\ stdout = <<Write(1, "content", Replacement)>>

\* C17: when get_start_index gives None (take 0, a request beyond the total,
\* an empty stream), print_lines and print_bytes write nothing, read nothing
\* and return success; a 0-byte file gives None for every take value.
C17_NoneEmitsNothing ==
    /\ (Took("resolve", 1) /\ start.tag = "None")
          => /\ stdout = <<>>
             /\ rpos = 0
             /\ StepsOf("skip") \cup StepsOf("read") \cup StepsOf("seek")
                   \cup StepsOf("print_lines") \cup StepsOf("print_bytes") = {}
             /\ rpc \in {"open", "returned"}
             /\ ret \in {RetNone, RetOk}
             /\ rpc = "returned" => ret = RetOk
    /\ (Took("resolve", 1) /\ TheFile = <<>>) => start.tag = "None"
    /\ (Took("resolve", 1) /\ emitter(config) = "print_lines"
          /\ config.lines = TakeNum(0)) => start.tag = "None"
    /\ (Took("resolve", 1) /\ emitter(config) = "print_bytes"
          /\ config.bytes.take.tag = "TakeNum"
          /\ config.bytes.take.n > Len(TheFile)) => start.tag = "None"

C17_Witness ==
    /\ rpc = "returned"
    /\ ret = RetOk
    /\ TheFile = <<"x", "nl">>
    /\ config.bytes = SomeBytes(TakeNum(3))
    /\ Took("resolve", 1)
    /\ start = None
    /\ stdout = <<>>

\* C18: in line mode, for a file of total >= 1 lines, TakeNum(-k) with k >= 1
\* emits exactly the last min(k, total) lines and PlusZero emits the whole
\* file.
C18_LastLinesEndToEnd ==
    (rpc = "returned" /\ ret = RetOk /\ fs["a"].exists
        /\ emitter(config) = "print_lines" /\ NumLines(TheFile) >= 1)
        => /\ totals.lines = NumLines(TheFile)
           /\ (config.lines.tag = "TakeNum" /\ config.lines.n < 0)
                 => LET k == -config.lines.n
                        m == IF k < NumLines(TheFile) THEN k ELSE NumLines(TheFile)
                    IN  /\ Len(stdout) = m
                        /\ \A j \in 1 .. m :
                              stdout[j].data = LineOf(TheFile, NumLines(TheFile) - m + j)
           /\ config.lines = PlusZero
                 => /\ Flat(stdout) = TheFile
                    /\ Len(stdout) = NumLines(TheFile)

C18_Witness ==
    /\ rpc = "returned"
    /\ ret = RetOk
    /\ ~args.lines.given
    /\ config.lines = TakeNum(-10)
    /\ config.bytes = NoBytes
    /\ TheFile = <<"x", "nl", "nl">>
    /\ Flat(stdout) = <<"x", "nl", "nl">>

-----------------------------------------------------------------------------
(* Claims about the headers and the order of run, under SpecRun *)

\* what a write puts on stdout: println! ends its text with a line feed
Printed(w) ==
    IF w.kind = "blank" THEN <<"nl">>
    ELSE IF w.kind = "header" THEN w.data \o <<"nl">>
    ELSE w.data

\* the output up to, and without, write k
RECURSIVE OutputBefore(_)
OutputBefore(k) ==
    IF k <= 1 THEN <<>> ELSE OutputBefore(k - 1) \o Printed(stdout[k - 1])

\* the number of empty lines that end the output b
RECURSIVE BlankLinesAtEnd(_)
BlankLinesAtEnd(b) ==
    IF Len(b) >= 1 /\ b[Len(b)] = "nl" /\ (Len(b) = 1 \/ b[Len(b) - 1] = "nl")
    THEN 1 + BlankLinesAtEnd(SubSeq(b, 1, Len(b) - 1))
    ELSE 0

HeaderWrites == {k \in 1 .. Len(stdout) : stdout[k].kind = "header"}

WithHeaders == Len(config.files) > 1 /\ ~config.quiet

\* with more than one file and without quiet, the header of a file is
\* printed once, before its content, for every file that was opened and
\* counted; with one file or with quiet nothing but content is printed
HeadersPrinted ==
    /\ ~WithHeaders => \A k \in 1 .. Len(stdout) : stdout[k].kind = "content"
    /\ WithHeaders =>
          /\ \A k \in HeaderWrites :
                /\ stdout[k].data = Header(config.files[stdout[k].file])
                /\ \A j \in HeaderWrites : stdout[j].file = stdout[k].file => j = k
          /\ \A k \in 1 .. Len(stdout) :
                stdout[k].kind = "content"
                    => \E j \in HeaderWrites : j < k /\ stdout[j].file = stdout[k].file
          /\ \A n \in 1 .. Len(config.files) :
                Took("resolve", n) => \E j \in HeaderWrites : stdout[j].file = n

\* C19 as stated: with more than one file and without quiet the header
\* "==> <filename> <==" precedes the content of every opened file, and every
\* header but the first one printed is preceded by exactly one blank line;
\* with one file or with quiet no header and no blank line is printed.
C19_HeaderAfterOneBlankLine ==
    config # NoConfig =>
        /\ HeadersPrinted
        /\ \A k \in HeaderWrites :
              BlankLinesAtEnd(OutputBefore(k)) =
                 IF k = CHOOSE j \in HeaderWrites : \A h \in HeaderWrites : j <= h
                 THEN 0 ELSE 1

\* C19 as amended: as stated, but every header except the first one printed
\* is preceded by exactly one line feed that run writes (println!()): it
\* shows as exactly one blank line when the output before it ended with a
\* single line feed (a header, a text that ends a line), and only ends the
\* last line when the content before it has no final line feed.
C19_HeaderAfterOnePrintln ==
    config # NoConfig =>
        /\ HeadersPrinted
        /\ \A k \in 1 .. Len(stdout) :
              stdout[k].kind = "blank"
                 => /\ k > 1
                    /\ k + 1 \in HeaderWrites
                    /\ stdout[k - 1].kind # "blank"
                    /\ stdout[k].file = stdout[k + 1].file
        /\ \A k \in HeaderWrites :
              LET first == \A h \in HeaderWrites : k <= h
              IN  /\ first <=> k = 1
                  /\ ~first =>
                        /\ stdout[k - 1].kind = "blank"
                        /\ LET b == OutputBefore(k - 1)
                           IN  /\ b # <<>>
                               /\ b[Len(b)] # "nl"
                                     => BlankLinesAtEnd(OutputBefore(k)) = 0
                               /\ (b[Len(b)] = "nl" /\ BlankLinesAtEnd(b) = 0)
                                     => BlankLinesAtEnd(OutputBefore(k)) = 1
                               /\ stdout[k - 1 - 1].kind = "header"
                                     => BlankLinesAtEnd(OutputBefore(k)) = 1

C19_Witness ==
    /\ rpc = "returned"
    /\ ret = RetOk
    /\ config.files = <<"a", "b">>
    /\ ~config.quiet
    /\ fs["a"].exists
    /\ fs["a"].content = <<"x", "nl">>
    /\ fs["b"].content = <<"x", "nl", "x">>
    /\ config.lines = TakeNum(-1)
    /\ config.bytes = NoBytes
    /\ stdout = <<Write(1, "header", Header("a")), Write(1, "content", <<"x", "nl">>),
                  Write(2, "blank", <<>>), Write(2, "header", Header("b")),
                  Write(2, "content", <<"x">>)>>
    /\ BlankLinesAtEnd(OutputBefore(4)) = 1

\* the place of a step in the body of the loop
Rank(op) ==
    CASE op = "open" -> 1
      [] op \in {"count", "count_read_error"} -> 2
      [] op = "header" -> 3
      [] op = "resolve" -> 4
      [] OTHER -> 5

LineSteps == {"skip", "print_lines"}
ByteSteps == {"seek", "print_bytes"}

\* C20: run processes the files in list order, one fully before the next:
\* for each file the totals are counted, then the header (if any) is printed,
\* then the start is resolved, and only then one emitter writes the content
\* (print_bytes if a byte count is given, else print_lines); no output of a
\* later file comes before output of an earlier one.
C20_OneFileAfterTheOther ==
    config # NoConfig =>
        /\ \A k \in 1 .. Len(trace) - 1 :
              /\ trace[k].file <= trace[k + 1].file
              /\ trace[k].file = trace[k + 1].file
                    => Rank(trace[k].op) <= Rank(trace[k + 1].op)
              /\ trace[k].file < trace[k + 1].file
                    => trace[k + 1] = Step("open", trace[k].file + 1)
        /\ \A k \in 1 .. Len(trace) : \A j \in 1 .. Len(trace) :
              (trace[k] = trace[j] /\ Rank(trace[k].op) <= 4) => k = j
        /\ \A n \in 1 .. Len(config.files) :
              /\ Took("header", n) => Took("count", n)
              /\ Took("resolve", n) => Took("count", n)
              /\ (Took("resolve", n) /\ WithHeaders) => Took("header", n)
              /\ \A k \in 1 .. Len(trace) :
                    (trace[k].file = n /\ Rank(trace[k].op) = 5) => Took("resolve", n)
              /\ \A k \in 1 .. Len(trace) :
                    trace[k].file = n =>
                       /\ trace[k].op \in LineSteps => config.bytes.tag = "None"
                       /\ trace[k].op \in ByteSteps => config.bytes.tag = "Some"
        /\ \A k \in 1 .. Len(stdout) - 1 : stdout[k].file <= stdout[k + 1].file
        /\ \A k \in 1 .. Len(stdout) :
              /\ stdout[k].file <= file_no
              /\ Took("count", stdout[k].file)
              /\ stdout[k].kind = "content"
                    => /\ Took("resolve", stdout[k].file)
                       /\ Took(IF config.bytes.tag = "Some" THEN "print_bytes"
                               ELSE "print_lines", stdout[k].file)

C20_Witness ==
    /\ rpc = "returned"
    /\ ret = RetOk
    /\ config.files = <<"a", "b">>
    /\ config.bytes = SomeBytes(TakeNum(1))
    /\ ~config.quiet
    /\ trace = <<Step("open", 1), Step("count", 1), Step("header", 1),
                 Step("resolve", 1), Step("seek", 1), Step("print_bytes", 1),
                 Step("open", 2), Step("count", 2), Step("header", 2),
                 Step("resolve", 2), Step("seek", 2), Step("print_bytes", 2)>>

-----------------------------------------------------------------------------
(* The other programs of the repository.  Each is modelled by the functions *)
(* the claims are about, applied to inputs drawn from bounded sets, or by   *)
(* the loop of its run taken one iteration at a time.  usize is modelled    *)
(* in the width of u64 above.                                               *)

\* tailr is not running
TailrIdle ==
    /\ value = <<>>
    /\ parsed = Unparsed
    /\ take_val = NoTake
    /\ total = 0
    /\ start = None
    /\ build = "release"
    /\ overflowed = FALSE
    /\ pc = "idle"
    /\ RunIdle

\* longest enumerated list handed to parse_pos
MaxListLen == 5

USIZE_MAX == (2 ^ Bits) - 1

\* the digit loop of str::parse::<usize>: it fails on a character that is
\* not a digit and when the number leaves the usize range
RECURSIVE accumulate_usize(_, _)
accumulate_usize(digits, acc) ==
    IF digits = <<>> THEN [ok |-> TRUE, v |-> acc]
    ELSE IF Head(digits) \notin Digits THEN [ok |-> FALSE, v |-> 0]
    ELSE LET nxt == acc * 10 + DigitVal(Head(digits))
         IN  IF nxt > USIZE_MAX THEN [ok |-> FALSE, v |-> 0]
             ELSE accumulate_usize(Tail(digits), nxt)

\* str::parse::<usize>: an optional '+', then digits; '-' is no sign here
parse_usize(s) ==
    IF s = <<>> \/ s = <<"+">> \/ s = <<"-">> THEN [ok |-> FALSE, v |-> 0]
    ELSE accumulate_usize(IF s[1] = "+" THEN Tail(s) ELSE s, 0)

\* str::parse::<NonZeroUsize>
parse_nonzero(s) ==
    LET r == parse_usize(s)
    IN  IF r.ok /\ r.v # 0 THEN r ELSE [ok |-> FALSE, v |-> 0]

-----------------------------------------------------------------------------
(* cutr: parse_index and parse_pos *)

PosNone == [tag |-> "none", list |-> <<>>, err |-> <<>>]
PosOk(l) == [tag |-> "Ok", list |-> l, err |-> <<>>]
PosErr(e) == [tag |-> "Err", list |-> <<>>, err |-> e]

\* Range<usize>
Range(a, b) == [start |-> a, end |-> b]

\* the index of the first c in s, 0 if there is none
find(s, c) ==
    IF \E i \in 1 .. Len(s) : s[i] = c
    THEN CHOOSE i \in 1 .. Len(s) : s[i] = c /\ \A j \in 1 .. i - 1 : s[j] # c
    ELSE 0

\* str::split(c)
RECURSIVE split(_, _)
split(s, c) ==
    LET i == find(s, c)
    IN  IF i = 0 THEN <<s>>
        ELSE <<SubSeq(s, 1, i - 1)>> \o split(SubSeq(s, i + 1, Len(s)), c)

\* str::splitn(2, c)
splitn2(s, c) ==
    LET i == find(s, c)
    IN  IF i = 0 THEN <<s>> ELSE <<SubSeq(s, 1, i - 1), SubSeq(s, i + 1, Len(s))>>

\* as parse_index, without the test for a leading '+'
parse_index_signed(v) ==
    LET r == parse_nonzero(v)
    IN  [ok |-> r.ok, v |-> r.v,
         err |-> IF r.ok THEN <<>> ELSE <<"illegal index value: \"">> \o v \o <<"\"">>]

\* parse_index
parse_index(v) ==
    LET r == IF starts_with(v, "+") THEN [ok |-> FALSE, v |-> 0]
             ELSE parse_nonzero(v)
    IN  [ok |-> r.ok, v |-> r.v,
         err |-> IF r.ok THEN <<>> ELSE <<"illegal index value: \"">> \o v \o <<"\"">>]

\* as parse_range, with the one-based number kept as the start
parse_range_one_based(range) ==
    LET parts == splitn2(range, "-")
        idx == [i \in 1 .. Len(parts) |-> parse_index(parts[i])]
    IN  IF \E i \in 1 .. Len(parts) : ~idx[i].ok
        THEN [ok |-> FALSE, range |-> Range(0, 0),
              err |-> <<"illegal list value: \"">> \o range \o <<"\"">>]
        ELSE IF Len(parts) = 1
        THEN [ok |-> TRUE, range |-> Range(idx[1].v, idx[1].v), err |-> <<>>]
        ELSE IF idx[2].v <= idx[1].v
        THEN [ok |-> FALSE, range |-> Range(0, 0),
              err |-> <<"First number in range (">> \o NatToString(idx[1].v)
                        \o <<") must be lower than second number (">>
                        \o NatToString(idx[2].v) \o <<")">>]
        ELSE [ok |-> TRUE, range |-> Range(idx[1].v, idx[2].v), err |-> <<>>]

\* the closure of parse_pos, on one comma-separated element
parse_range(range) ==
    LET parts == splitn2(range, "-")
        idx == [i \in 1 .. Len(parts) |-> parse_index(parts[i])]
    IN  IF \E i \in 1 .. Len(parts) : ~idx[i].ok
        THEN [ok |-> FALSE, range |-> Range(0, 0),
              err |-> <<"illegal list value: \"">> \o range \o <<"\"">>]
        ELSE IF Len(parts) = 1
        THEN [ok |-> TRUE, range |-> Range(idx[1].v - 1, idx[1].v), err |-> <<>>]
        ELSE IF idx[2].v <= idx[1].v
        THEN [ok |-> FALSE, range |-> Range(0, 0),
              err |-> <<"First number in range (">> \o NatToString(idx[1].v)
                        \o <<") must be lower than second number (">>
                        \o NatToString(idx[2].v) \o <<")">>]
        ELSE [ok |-> TRUE, range |-> Range(idx[1].v - 1, idx[2].v), err |-> <<>>]

\* `.collect()` into a Result: the ranges in order, or the first error
RECURSIVE collect_ranges(_)
collect_ranges(elems) ==
    IF elems = <<>> THEN PosOk(<<>>)
    ELSE LET r == parse_range(Head(elems))
         IN  IF ~r.ok THEN PosErr(r.err)
             ELSE LET rest == collect_ranges(Tail(elems))
                  IN  IF rest.tag = "Err" THEN rest
                      ELSE PosOk(<<r.range>> \o rest.list)

\* parse_pos
parse_pos(rs) == collect_ranges(split(rs, ","))

\* every program but cutr
besidesCutr == <<tailrVars, headrVars, wcrVars, lsrVars, greprVars, uniqrVars,
                 commrVars>>

OnlyCutr ==
    TailrIdle /\ HeadrIdle /\ WcrIdle /\ LsrIdle /\ GreprIdle /\ UniqrIdle
        /\ CommrIdle

\* get_args: `parse_pos(matches.value_of("list").unwrap())`
ParsePos ==
    /\ cut_pc = "parse_pos"
    /\ pos_list' = parse_pos(ranges)
    /\ cut_pc' = "parsed"
    /\ UNCHANGED <<ranges, line, record, extracted>>
    /\ UNCHANGED besidesCutr

\* the characters lists are enumerated over
ListChars == {"0", "1", "2", ",", "-", "+", "a"}

\* the lists of test_parse_pos that ListChars does not spell
ListExamples ==
    {<<"1", ",", "7", ",", "3", "-", "5">>,
     <<"1", "5", ",", "1", "9", "-", "2", "0">>,
     <<"0", "0", "1", ",", "0", "0", "0", "3">>,
     <<"0", "0", "0", "1", "-", "0", "3">>,
     <<"1", "-", "1", "-", "a">>}

Lists == BoundedSeq(ListChars, MaxListLen) \cup ListExamples

\* parse_pos alone on every list
InitParsePos ==
    /\ ranges \in Lists
    /\ pos_list = PosNone
    /\ line = <<>>
    /\ record = <<>>
    /\ extracted = [by |-> "none", out |-> <<>>]
    /\ cut_pc = "parse_pos"
    /\ OnlyCutr

SpecParsePos == InitParsePos /\ [][ParsePos]_vars

-----------------------------------------------------------------------------
(* Claims about parse_pos, under SpecParsePos *)

\* the places of the separators c of s, with both ends of s
Cuts(s, c) == {0, Len(s) + 1} \cup {i \in 1 .. Len(s) : s[i] = c}

\* the k-th place of Cuts(s, c), counted from 0
Cut(s, c, k) ==
    CHOOSE i \in Cuts(s, c) : Cardinality({j \in Cuts(s, c) : j < i}) = k

NumElements(s) == Cardinality(Cuts(s, ",")) - 1

\* the k-th comma-separated element of s, as written
Element(s, k) == SubSeq(s, Cut(s, ",", k - 1) + 1, Cut(s, ",", k) - 1)

\* a positive integer of the usize range, leading zeros allowed
IsPositive(s) == IsUnsigned(s) /\ NatValue(s) >= 1 /\ NatValue(s) <= USIZE_MAX

\* the text before and after the first '-' of an element that has one
FirstNumber(e) == SubSeq(e, 1, Cut(e, "-", 1) - 1)
SecondNumber(e) == SubSeq(e, Cut(e, "-", 1) + 1, Len(e))
HasDash(e) == \E i \in 1 .. Len(e) : e[i] = "-"

\* "N", or "N-M" with N < M
IsListElement(e) ==
    \/ IsPositive(e)
    \/ /\ HasDash(e)
       /\ IsPositive(FirstNumber(e))
       /\ IsPositive(SecondNumber(e))
       /\ NatValue(FirstNumber(e)) < NatValue(SecondNumber(e))

RangeOf(e) ==
    IF HasDash(e)
    THEN Range(NatValue(FirstNumber(e)) - 1, NatValue(SecondNumber(e)))
    ELSE Range(NatValue(e) - 1, NatValue(e))

\* C21: parse_pos accepts a comma-separated list whose elements are each
\* "N" or "N-M" with N and M positive integers (leading zeros allowed) and
\* N < M, and returns, in the order written and without sorting or merging,
\* the half-open zero-based range (N-1)..N for "N" and (N-1)..M for "N-M".
C21_ParsePosReturnsRangesInOrder ==
    (cut_pc = "parsed"
        /\ \A k \in 1 .. NumElements(ranges) : IsListElement(Element(ranges, k)))
    => pos_list = PosOk([k \in 1 .. NumElements(ranges)
                            |-> RangeOf(Element(ranges, k))])

C21_Witness ==
    /\ cut_pc = "parsed"
    /\ ranges = <<"1", ",", "7", ",", "3", "-", "5">>
    /\ pos_list = PosOk(<<Range(0, 1), Range(6, 7), Range(2, 5)>>)

\* a number that is empty, not all digits (a '+' included) or zero
IsIllegalNumber(x) == ~IsUnsigned(x) \/ NatValue(x) = 0

\* an element with such a number
IsIllegalElement(e) ==
    IF HasDash(e)
    THEN IsIllegalNumber(FirstNumber(e)) \/ IsIllegalNumber(SecondNumber(e))
    ELSE IsIllegalNumber(e)

\* "N-M" with M <= N
IsBackwardRange(e) ==
    /\ HasDash(e)
    /\ IsPositive(FirstNumber(e))
    /\ IsPositive(SecondNumber(e))
    /\ NatValue(SecondNumber(e)) <= NatValue(FirstNumber(e))

\* the first element of s that is not a list element, 0 if all are
FirstInvalid(s) ==
    IF \A k \in 1 .. NumElements(s) : IsListElement(Element(s, k)) THEN 0
    ELSE CHOOSE k \in 1 .. NumElements(s) :
            /\ ~IsListElement(Element(s, k))
            /\ \A j \in 1 .. k - 1 : IsListElement(Element(s, j))

\* C22: parse_pos rejects the whole list if any element is invalid: an
\* element whose number is zero, empty, non-numeric or has a leading '+'
\* fails with 'illegal list value: "<element>"' naming that element, an
\* element "N-M" with M <= N fails with "First number in range (N) must be
\* lower than second number (M)", and no partial list is returned (the
\* error is that of the first invalid element).
C22_ParsePosRejectsTheWholeList ==
    (cut_pc = "parsed" /\ FirstInvalid(ranges) # 0)
    => LET e == Element(ranges, FirstInvalid(ranges))
       IN  /\ pos_list.tag = "Err"
           /\ pos_list.list = <<>>
           /\ IsIllegalElement(e)
                 => pos_list.err = <<"illegal list value: \"">> \o e \o <<"\"">>
           /\ IsBackwardRange(e)
                 => pos_list.err =
                       <<"First number in range (">>
                          \o NatToString(NatValue(FirstNumber(e)))
                          \o <<") must be lower than second number (">>
                          \o NatToString(NatValue(SecondNumber(e))) \o <<")">>

C22_Witness ==
    /\ cut_pc = "parsed"
    /\ ranges = <<"1", ",", "2", "-", "1">>
    /\ pos_list = PosErr(<<"First number in range (", "2",
                           ") must be lower than second number (", "1", ")">>)

-----------------------------------------------------------------------------
(* cutr: extract_chars, extract_bytes, extract_fields *)

\* longest enumerated line, in bytes, and longest enumerated record
MaxLineLen == 3
\* longest enumerated position list
MaxRanges == 2

\* `line.chars()`: the characters of a valid UTF-8 string, each as its bytes
RECURSIVE chars(_)
chars(b) ==
    IF b = <<>> THEN <<>>
    ELSE IF b[1] = "C3" THEN <<SubSeq(b, 1, 2)>> \o chars(SubSeq(b, 3, Len(b)))
    ELSE <<SubSeq(b, 1, 1)>> \o chars(Tail(b))

\* `.collect::<String>()` of characters
RECURSIVE collect_string(_)
collect_string(cs) ==
    IF cs = <<>> THEN <<>> ELSE Head(cs) \o collect_string(Tail(cs))

Min(a, b) == IF a <= b THEN a ELSE b

\* as select, with the end of a range taken inclusively
RECURSIVE select_inclusive(_, _)
select_inclusive(units, pos) ==
    IF pos = <<>> THEN <<>>
    ELSE (IF Head(pos).start < Len(units)
          THEN SubSeq(units, Head(pos).start + 1,
                      Min(Head(pos).end + 1, Len(units)))
          ELSE <<>>) \o select_inclusive(units, Tail(pos))

\* `pos.iter().filter(|r| r.start < len).flat_map(|r| &units[r.start..min(r.end, len)])`
RECURSIVE select(_, _)
select(units, pos) ==
    IF pos = <<>> THEN <<>>
    ELSE (IF Head(pos).start < Len(units)
          THEN SubSeq(units, Head(pos).start + 1, Min(Head(pos).end, Len(units)))
          ELSE <<>>) \o select(units, Tail(pos))

extract_chars(l, char_pos) == collect_string(select(chars(l), char_pos))

extract_bytes(l, byte_pos) == from_utf8_lossy(select(l, byte_pos))

extract_fields(rec, field_pos) == select(rec, field_pos)

Extracted(by, out) == [by |-> by, out |-> out]

\* run: `extract_chars(&line?, pos_list)`
ExtractChars ==
    /\ cut_pc = "extract"
    /\ extracted' = Extracted("chars", extract_chars(line, pos_list.list))
    /\ cut_pc' = "done"
    /\ UNCHANGED <<ranges, pos_list, line, record>>
    /\ UNCHANGED besidesCutr

\* run: `extract_bytes(&line?, pos_list)`
ExtractBytes ==
    /\ cut_pc = "extract"
    /\ extracted' = Extracted("bytes", extract_bytes(line, pos_list.list))
    /\ cut_pc' = "done"
    /\ UNCHANGED <<ranges, pos_list, line, record>>
    /\ UNCHANGED besidesCutr

\* run: `extract_fields(&record?, pos_list)`
ExtractFields ==
    /\ cut_pc = "extract"
    /\ extracted' = Extracted("fields", extract_fields(record, pos_list.list))
    /\ cut_pc' = "done"
    /\ UNCHANGED <<ranges, pos_list, line, record>>
    /\ UNCHANGED besidesCutr

NextExtract == ExtractChars \/ ExtractBytes \/ ExtractFields

\* the ranges parse_pos can return: start < end
Ranges ==
    {r \in [start : 0 .. MaxLineLen, end : 1 .. MaxLineLen + 1] : r.start < r.end}

\* lines of one-byte and two-byte characters
CutLines == {l \in BoundedSeq({"x", "C3", "A9"}, MaxLineLen) : valid_utf8(l)}

\* records of short fields
CutRecords == BoundedSeq({"Captain", "Sham"}, MaxLineLen)

\* the extractors on every position list, with a line or with a record
InitExtract ==
    /\ ranges = <<>>
    /\ pos_list \in {PosOk(l) : l \in BoundedSeq(Ranges, MaxRanges)}
    /\ \/ line \in CutLines /\ record = <<>>
       \/ line = <<>> /\ record \in CutRecords
    /\ extracted = Extracted("none", <<>>)
    /\ cut_pc = "extract"
    /\ OnlyCutr

SpecExtract == InitExtract /\ [][NextExtract]_vars

-----------------------------------------------------------------------------
(* Claims about the extractors, under SpecExtract *)

\* the units of units at indices r.start .. min(r.end, len), none when
\* r.start is at or beyond len
Piece(units, r) ==
    [i \in 1 .. Max(0, Min(r.end, Len(units)) - r.start) |-> units[r.start + i]]

RECURSIVE Concat(_)
Concat(ss) == IF ss = <<>> THEN <<>> ELSE Head(ss) \o Concat(Tail(ss))

\* the pieces of every range, in position-list order
Picked(units, pos) == Concat([k \in 1 .. Len(pos) |-> Piece(units, pos[k])])

\* C23 as stated: extract_chars, extract_bytes and extract_fields return the
\* concatenation, in position-list order, of the units (characters, bytes,
\* fields) at indices start..min(end, len) of each range; a range that starts
\* at or beyond the length contributes nothing.
C23_ExtractReturnsThePickedUnits ==
    cut_pc = "done" =>
        /\ extracted.by = "chars"
              => extracted.out = Concat(Picked(chars(line), pos_list.list))
        /\ extracted.by = "bytes"
              => extracted.out = Picked(line, pos_list.list)
        /\ extracted.by = "fields"
              => extracted.out = Picked(record, pos_list.list)

\* C23 as amended: as stated for extract_chars and extract_fields;
\* extract_bytes returns the picked bytes with every byte that is not part
\* of a whole UTF-8 character replaced by U+FFFD, the picked bytes themselves
\* exactly when they are valid UTF-8.
C23_ExtractBytesIsLossy ==
    cut_pc = "done" =>
        /\ extracted.by = "chars"
              => extracted.out = Concat(Picked(chars(line), pos_list.list))
        /\ extracted.by = "bytes"
              => /\ extracted.out = ReplacedFrom(Picked(line, pos_list.list), 1)
                 /\ IsText(Picked(line, pos_list.list))
                       <=> extracted.out = Picked(line, pos_list.list)
        /\ extracted.by = "fields"
              => extracted.out = Picked(record, pos_list.list)

C23_Witness ==
    /\ cut_pc = "done"
    /\ line = <<"C3", "A9", "x">>
    /\ pos_list.list = <<Range(2, 4), Range(0, 1)>>
    /\ extracted = Extracted("bytes", <<"x">> \o Replacement)

-----------------------------------------------------------------------------
(* headr: parse_positive_int *)

IntNone == [tag |-> "none", n |-> 0, err |-> <<>>]
IntOk(n) == [tag |-> "Ok", n |-> n, err |-> <<>>]
IntErr(e) == [tag |-> "Err", n |-> 0, err |-> e]

\* as parse_positive_int, without the guard `n > 0`
parse_positive_int_any(v) ==
    LET r == parse_usize(v)
    IN  IF r.ok THEN IntOk(r.v) ELSE IntErr(v)

\* parse_positive_int
parse_positive_int(v) ==
    LET r == parse_usize(v)
    IN  IF r.ok /\ r.v > 0 THEN IntOk(r.v) ELSE IntErr(v)

besidesHeadr == <<tailrVars, cutrVars, wcrVars, lsrVars, greprVars, uniqrVars,
                  commrVars>>

OnlyHeadr ==
    TailrIdle /\ CutrIdle /\ WcrIdle /\ LsrIdle /\ GreprIdle /\ UniqrIdle
        /\ CommrIdle

\* get_args: `.map(parse_positive_int)`
ParsePositiveInt ==
    /\ positive_int = IntNone
    /\ positive_int' = parse_positive_int(val)
    /\ UNCHANGED val
    /\ UNCHANGED besidesHeadr

\* parse_positive_int alone on every token
InitPositiveInt ==
    /\ val \in Tokens
    /\ positive_int = IntNone
    /\ OnlyHeadr

SpecPositiveInt == InitPositiveInt /\ [][ParsePositiveInt]_vars

-----------------------------------------------------------------------------
(* Claims about parse_positive_int, under SpecPositiveInt *)

\* the token denotes an integer n >= 1 of the usize range
IsPositiveLiteral(s) ==
    IsIntLiteral(s) /\ LiteralValue(s) >= 1 /\ LiteralValue(s) <= USIZE_MAX

\* C24: parse_positive_int returns Ok(n) exactly when the token parses as an
\* integer n >= 1; for every other token, "0" and any non-numeric string
\* included, it returns an error whose message is exactly the token.
C24_PositiveIntOrTheToken ==
    positive_int # IntNone =>
        /\ IsPositiveLiteral(val) => positive_int = IntOk(LiteralValue(val))
        /\ ~IsPositiveLiteral(val) => positive_int = IntErr(val)

C24_Witness ==
    /\ val = <<"0">>
    /\ positive_int = IntErr(<<"0">>)

-----------------------------------------------------------------------------
(* Text streams of the other programs.  Beside the bytes above there are    *)
(* the ASCII bytes "sp" (a space), "a", "b" and "A", and the three bytes    *)
(* "E2" "80" "83" of U+2003 EM SPACE, a whitespace character that is not    *)
(* ASCII.                                                                   *)

Ascii == {"x", "nl", "sp", "a", "b", "A"}

\* the multi-byte characters: U+00E9 and U+2003
MultiByte == {<<"C3", "A9">>, <<"E2", "80", "83">>}

\* the bytes of the character b starts with, <<>> if it starts with none
char_at(b) ==
    IF b = <<>> THEN <<>>
    ELSE IF b[1] \in Ascii THEN <<b[1]>>
    ELSE IF \E m \in MultiByte : Len(b) >= Len(m) /\ SubSeq(b, 1, Len(m)) = m
    THEN CHOOSE m \in MultiByte : Len(b) >= Len(m) /\ SubSeq(b, 1, Len(m)) = m
    ELSE <<>>

\* std::str::from_utf8: the characters of b, or a failure
RECURSIVE from_utf8(_)
from_utf8(b) ==
    IF b = <<>> THEN [ok |-> TRUE, chars |-> <<>>]
    ELSE LET c == char_at(b)
         IN  IF c = <<>> THEN [ok |-> FALSE, chars |-> <<>>]
             ELSE LET r == from_utf8(SubSeq(b, Len(c) + 1, Len(b)))
                  IN  [ok |-> r.ok, chars |-> IF r.ok THEN <<c>> \o r.chars ELSE <<>>]

\* BufRead::read_line into an empty String, at position p: the bytes up to
\* and including the next line feed, which must be valid UTF-8
read_text_line(content, p) ==
    LET e == line_end(content, p)
        chunk == SubSeq(content, p + 1, e)
    IN  [ok |-> from_utf8(chunk).ok, line |-> chunk, pos |-> e]

\* u8::is_ascii_whitespace (of the bytes modelled)
is_ascii_whitespace(c) == c \in {"sp", "nl"}

\* char::is_whitespace (of the characters modelled)
is_whitespace(c) == c \in {<<"sp">>, <<"nl">>, <<"E2", "80", "83">>}

\* the streams made of at most n of the units u
StreamsOf(u, n) == {collect_string(cs) : cs \in BoundedSeq(u, n)}

-----------------------------------------------------------------------------
(* wcr: count *)

\* longest enumerated input stream, in characters and stray bytes
MaxInputChars == 4

InfoNone ==
    [tag |-> "none", num_lines |-> 0, num_words |-> 0, num_bytes |-> 0,
     num_chars |-> 0]
InfoErr ==
    [tag |-> "Err", num_lines |-> 0, num_words |-> 0, num_bytes |-> 0,
     num_chars |-> 0]
FileInfo(l, w, b, c) ==
    [tag |-> "Ok", num_lines |-> l, num_words |-> w, num_bytes |-> b,
     num_chars |-> c]

\* `buf.split_ascii_whitespace().collect::<Vec<_>>().len()`
split_ascii_whitespace_len(buf) ==
    Cardinality({i \in 1 .. Len(buf) :
                    /\ ~is_ascii_whitespace(buf[i])
                    /\ (i = 1 \/ is_ascii_whitespace(buf[i - 1]))})

\* `buf.split_whitespace().count()`, which count does not use
split_whitespace_len(buf) ==
    LET cs == from_utf8(buf).chars
    IN  Cardinality({i \in 1 .. Len(cs) :
                        /\ ~is_whitespace(cs[i])
                        /\ (i = 1 \/ is_whitespace(cs[i - 1]))})

\* as count_from, with the words split at every whitespace character
RECURSIVE count_from_unicode(_, _, _)
count_from_unicode(content, p, info) ==
    LET r == read_text_line(content, p)
    IN  IF ~r.ok THEN InfoErr
        ELSE IF Len(r.line) = 0 THEN info
        ELSE count_from_unicode(content, r.pos,
                FileInfo(info.num_lines + 1,
                         info.num_words + split_whitespace_len(r.line),
                         info.num_bytes + Len(r.line),
                         info.num_chars + Len(from_utf8(r.line).chars)))

\* the loop of count, from position p of the stream with the counts so far
RECURSIVE count_from(_, _, _)
count_from(content, p, info) ==
    LET r == read_text_line(content, p)
    IN  IF ~r.ok THEN InfoErr
        ELSE IF Len(r.line) = 0 THEN info
        ELSE count_from(content, r.pos,
                FileInfo(info.num_lines + 1,
                         info.num_words + split_ascii_whitespace_len(r.line),
                         info.num_bytes + Len(r.line),
                         info.num_chars + Len(from_utf8(r.line).chars)))

\* count
count(file) == count_from(file, 0, FileInfo(0, 0, 0, 0))

besidesWcr == <<tailrVars, cutrVars, headrVars, lsrVars, greprVars, uniqrVars,
                commrVars>>

OnlyWcr ==
    TailrIdle /\ CutrIdle /\ HeadrIdle /\ LsrIdle /\ GreprIdle /\ UniqrIdle
        /\ CommrIdle

\* run: `count(file)?`
Count ==
    /\ file_info = InfoNone
    /\ file_info' = count(input)
    /\ UNCHANGED input
    /\ UNCHANGED besidesWcr

\* a letter, a space, a line feed, U+00E9, U+2003 and a stray byte
WcUnits ==
    {<<"x">>, <<"sp">>, <<"nl">>, <<"C3", "A9">>, <<"E2", "80", "83">>, <<"A9">>}

\* count alone on every stream
InitCount ==
    /\ input \in StreamsOf(WcUnits, MaxInputChars)
    /\ file_info = InfoNone
    /\ OnlyWcr

SpecCount == InitCount /\ [][Count]_vars

-----------------------------------------------------------------------------
(* Claims about count, under SpecCount *)

\* the bytes that continue a multi-byte character
Continuation == {"A9", "80", "83"}

\* the places where a character of the valid stream c starts
CharStarts(c) == {i \in 1 .. Len(c) : c[i] \notin Continuation}

\* the character that starts at place i
CharFrom(c, i) ==
    SubSeq(c, i, CHOOSE e \in i .. Len(c) :
                    /\ \A j \in i + 1 .. e : c[j] \in Continuation
                    /\ (e = Len(c) \/ c[e + 1] \notin Continuation))

\* the character before the one that starts at place i > 1
CharBefore(c, i) ==
    CharFrom(c, CHOOSE h \in CharStarts(c) :
                   h < i /\ \A j \in CharStarts(c) : j < i => j <= h)

\* the maximal runs of characters that are not whitespace
WordStarts(c) ==
    {i \in CharStarts(c) :
        /\ ~is_whitespace(CharFrom(c, i))
        /\ (i = 1 \/ is_whitespace(CharBefore(c, i)))}

\* the maximal runs of bytes that are not ASCII whitespace
AsciiWordStarts(c) ==
    {i \in 1 .. Len(c) :
        /\ c[i] \notin {"sp", "nl"}
        /\ (i = 1 \/ c[i - 1] \in {"sp", "nl"})}

IsAscii(c) == \A i \in 1 .. Len(c) : c[i] \in Ascii

\* C25 as stated: count returns num_bytes equal to the number of bytes read,
\* num_lines equal to the number of lines (a final line without a line feed
\* counts), num_words equal to the number of maximal runs of non-whitespace
\* characters, and num_chars equal to the number of characters, line
\* terminators included; for pure-ASCII input num_chars equals num_bytes.
C25_CountCountsWhitespaceWords ==
    file_info.tag = "Ok" =>
        /\ file_info.num_bytes = Len(input)
        /\ file_info.num_lines = NumLines(input)
        /\ file_info.num_words = Cardinality(WordStarts(input))
        /\ file_info.num_chars = Cardinality(CharStarts(input))
        /\ IsAscii(input) => file_info.num_chars = file_info.num_bytes

\* C25 as amended: as stated, but num_words is the number of maximal runs
\* of characters other than ASCII whitespace: a whitespace character that
\* is not ASCII (U+2003) is part of a word.
C25_CountCountsAsciiWhitespaceWords ==
    file_info.tag = "Ok" =>
        /\ file_info.num_bytes = Len(input)
        /\ file_info.num_lines = NumLines(input)
        /\ file_info.num_words = Cardinality(AsciiWordStarts(input))
        /\ file_info.num_chars = Cardinality(CharStarts(input))
        /\ IsAscii(input) => file_info.num_chars = file_info.num_bytes

C25_Witness ==
    /\ input = <<"x", "E2", "80", "83", "x", "nl">>
    /\ file_info = FileInfo(1, 1, 6, 4)

-----------------------------------------------------------------------------
(* lsr: format_mode.  The u32 mode is modelled in ModeBits bits, no fewer   *)
(* than the nine permission bits and some above them.                       *)

\* width of the modelled u32
ModeBits == 12

\* `x >> k`
shr(x, k) == x \div (2 ^ k)

\* u32::reverse_bits, from bit k on
RECURSIVE reverse_from(_, _)
reverse_from(x, k) ==
    IF k >= ModeBits THEN 0
    ELSE (shr(x, k) % 2) * (2 ^ (ModeBits - 1 - k)) + reverse_from(x, k + 1)

reverse_bits(x) == reverse_from(x, 0)

\* `b"rwxrwxrwx".to_owned()`
Permissions == <<"r", "w", "x", "r", "w", "x", "r", "w", "x">>

\* as format_mode, with the bits of the mode read in place
format_mode_unreversed(m) ==
    [i \in 1 .. Len(Permissions) |->
        IF shr(m, i - 1) % 2 = 0 THEN "-" ELSE Permissions[i]]

\* format_mode
format_mode(m) ==
    LET rev_mode == shr(reverse_bits(m), ModeBits - Len(Permissions))
    IN  [i \in 1 .. Len(Permissions) |->
            IF shr(rev_mode, i - 1) % 2 = 0 THEN "-" ELSE Permissions[i]]

besidesLsr == <<tailrVars, cutrVars, headrVars, wcrVars, greprVars, uniqrVars,
                commrVars>>

OnlyLsr ==
    TailrIdle /\ CutrIdle /\ HeadrIdle /\ WcrIdle /\ GreprIdle /\ UniqrIdle
        /\ CommrIdle

\* format_output: `format_mode(metadata.mode())`
FormatMode ==
    /\ mode_str = <<>>
    /\ mode_str' = format_mode(mode)
    /\ UNCHANGED mode
    /\ UNCHANGED besidesLsr

\* format_mode alone on every mode
InitFormatMode ==
    /\ mode \in 0 .. (2 ^ ModeBits) - 1
    /\ mode_str = <<>>
    /\ OnlyLsr

SpecFormatMode == InitFormatMode /\ [][FormatMode]_vars

-----------------------------------------------------------------------------
(* Claims about format_mode, under SpecFormatMode *)

\* bit k of x is set
BitSet(x, k) == (x \div (2 ^ k)) % 2 = 1

\* C26: format_mode returns a 9-character string whose character i (0-based,
\* left to right) is the i-th letter of "rwxrwxrwx" when bit (8 - i) of the
\* mode is set and '-' otherwise; the bits above the low 9 are ignored.
C26_FormatModeReadsTheLowNineBits ==
    mode_str # <<>> =>
        /\ Len(mode_str) = 9
        /\ \A i \in 0 .. 8 :
              mode_str[i + 1] =
                 IF BitSet(mode, 8 - i)
                 THEN <<"r", "w", "x", "r", "w", "x", "r", "w", "x">>[i + 1]
                 ELSE "-"

\* 0o4421: the permissions of 0o421 under a set bit 11
C26_Witness ==
    /\ mode = 2048 + 256 + 16 + 1
    /\ mode_str = <<"r", "-", "-", "-", "w", "-", "-", "-", "x">>

-----------------------------------------------------------------------------
(* grepr: find_lines.  A Regex is modelled by a literal that matches where  *)
(* it occurs, with the case_insensitive flag of its builder.                *)

Regex(l, ci) == [literal |-> l, case_insensitive |-> ci]

\* u8::to_ascii_lowercase (of the bytes modelled)
to_lowercase(c) == IF c = "A" THEN "a" ELSE c

\* Regex::is_match
is_match(re, buf) ==
    \E o \in 0 .. Len(buf) - Len(re.literal) :
        \A i \in 1 .. Len(re.literal) :
            IF re.case_insensitive
            THEN to_lowercase(buf[o + i]) = to_lowercase(re.literal[i])
            ELSE buf[o + i] = re.literal[i]

FoundNone == [tag |-> "none", lines |-> <<>>]
FoundOk(ls) == [tag |-> "Ok", lines |-> ls]
FoundErr == [tag |-> "Err", lines |-> <<>>]

\* as find_from, with `||` in place of `^`
RECURSIVE find_from_or(_, _, _, _, _)
find_from_or(file, p, re, invert_match, results) ==
    LET r == read_text_line(file, p)
    IN  IF ~r.ok THEN FoundErr
        ELSE IF Len(r.line) = 0 THEN FoundOk(results)
        ELSE find_from_or(file, r.pos, re, invert_match,
                IF is_match(re, r.line) \/ invert_match
                THEN Append(results, r.line) ELSE results)

\* the loop of find_lines, from position p with the results so far; buf is
\* empty before every read_line (taken or cleared)
RECURSIVE find_from(_, _, _, _, _)
find_from(file, p, re, invert_match, results) ==
    LET r == read_text_line(file, p)
    IN  IF ~r.ok THEN FoundErr
        ELSE IF Len(r.line) = 0 THEN FoundOk(results)
        ELSE find_from(file, r.pos, re, invert_match,
                IF is_match(re, r.line) # invert_match
                THEN Append(results, r.line) ELSE results)

\* find_lines
find_lines(file, re, invert_match) == find_from(file, 0, re, invert_match, <<>>)

besidesGrepr == <<tailrVars, cutrVars, headrVars, wcrVars, lsrVars, uniqrVars,
                  commrVars>>

OnlyGrepr ==
    TailrIdle /\ CutrIdle /\ HeadrIdle /\ WcrIdle /\ LsrIdle /\ UniqrIdle
        /\ CommrIdle

\* run: `find_lines(file, &config.pattern, config.invert_match)`, once with
\* each value of invert_match
FindLines ==
    /\ \E inv \in BOOLEAN :
          /\ found[inv] = FoundNone
          /\ found' = [found EXCEPT ![inv] = find_lines(text, pattern, inv)]
    /\ UNCHANGED <<text, pattern>>
    /\ UNCHANGED besidesGrepr

\* two letters, one of them in both cases, a line feed and a stray byte
GrepUnits == {<<"a">>, <<"A">>, <<"b">>, <<"nl">>, <<"A9">>}

GrepLiterals == {<<>>, <<"a">>, <<"b">>, <<"a", "b">>, <<"nl">>}

\* find_lines alone on every text and every pattern
InitFindLines ==
    /\ text \in StreamsOf(GrepUnits, MaxInputChars)
    /\ pattern \in {Regex(l, ci) : l \in GrepLiterals, ci \in BOOLEAN}
    /\ found = [inv \in BOOLEAN |-> FoundNone]
    /\ OnlyGrepr

SpecFindLines == InitFindLines /\ [][FindLines]_vars

-----------------------------------------------------------------------------
(* Claims about find_lines, under SpecFindLines *)

\* the numbers of the lines of text the pattern matches, or does not
Chosen(inv) ==
    {j \in 1 .. NumLines(text) : is_match(pattern, LineOf(text, j)) # inv}

\* the k-th smallest number of the set J
Nth(J, k) == CHOOSE j \in J : Cardinality({h \in J : h <= j}) = k

\* C27: find_lines returns, in input order and with their terminators,
\* exactly the lines for which (pattern matches the line) XOR invert_match
\* holds; the results with invert_match false and true partition the lines
\* of the input, a final unterminated line included.
C27_FindLinesPartitionsTheLines ==
    /\ \A inv \in BOOLEAN :
          found[inv].tag = "Ok" =>
             found[inv].lines =
                [k \in 1 .. Cardinality(Chosen(inv)) |->
                    LineOf(text, Nth(Chosen(inv), k))]
    /\ (found[FALSE].tag = "Ok" /\ found[TRUE].tag = "Ok") =>
          /\ Len(found[FALSE].lines) + Len(found[TRUE].lines) = NumLines(text)
          /\ \A j \in 1 .. NumLines(text) :
                (\E k \in 1 .. Len(found[FALSE].lines) :
                      /\ found[FALSE].lines[k] = LineOf(text, j)
                      /\ Nth(Chosen(FALSE), k) = j)
                # (\E k \in 1 .. Len(found[TRUE].lines) :
                      /\ found[TRUE].lines[k] = LineOf(text, j)
                      /\ Nth(Chosen(TRUE), k) = j)

C27_Witness ==
    /\ text = <<"b", "nl", "A", "nl">>
    /\ pattern = Regex(<<"a">>, TRUE)
    /\ found[FALSE] = FoundOk(<<<<"A", "nl">>>>)
    /\ found[TRUE] = FoundOk(<<<<"b", "nl">>>>)

-----------------------------------------------------------------------------
(* Claim about the spellings of zero in tailr, under SpecEmit *)

\* the token of the count in use, and the take value get_args made of it
CountToken == IF args.bytes.given THEN args.bytes.tok ELSE lines_token(args)
CountTaken == IF args.bytes.given THEN config.bytes.take ELSE config.lines

\* an integer literal that denotes zero
IsZeroLiteral(s) == IsIntLiteral(s) /\ LiteralValue(s) = 0

\* C28: parse_num returns PlusZero for the exact token "+0" and for no other
\* token: every other spelling of zero ("0", "-0", "+00") parses to
\* TakeNum(0), which get_start_index resolves to None for every total, so
\* those tokens emit nothing while "+0" emits the whole file.
C28_OnlyPlusZeroTakesAll ==
    config # NoConfig =>
        /\ CountTaken = PlusZero <=> CountToken = <<"+", "0">>
        /\ (IsZeroLiteral(CountToken) /\ CountToken # <<"+", "0">>) =>
              /\ CountTaken = TakeNum(0)
              /\ start = None
              /\ stdout = <<>>
        /\ (CountToken = <<"+", "0">> /\ Took("resolve", 1)) =>
              /\ start = (IF (IF args.bytes.given THEN totals.bytes
                              ELSE totals.lines) > 0
                          THEN Some(0) ELSE None)
              /\ (rpc = "returned" /\ ret = RetOk /\ IsText(TheFile))
                    => Flat(stdout) = TheFile

C28_Witness ==
    /\ rpc = "returned"
    /\ ret = RetOk
    /\ args.lines = Arg(<<"+", "0", "0">>)
    /\ config.lines = TakeNum(0)
    /\ TheFile = <<"x", "nl", "x">>
    /\ Took("resolve", 1)
    /\ start = None
    /\ stdout = <<>>

-----------------------------------------------------------------------------
(* uniqr: run, one iteration of its loop at a time.  outfile is the         *)
(* sequence of the writes made, each with its prefix and its line.          *)

UniqNone == [tag |-> "none", msg |-> <<>>]
UniqOk == [tag |-> "Ok", msg |-> <<>>]
UniqErr(m) == [tag |-> "Err", msg |-> m]

\* str::is_char_boundary
is_char_boundary(b, i) ==
    i = 0 \/ i = Len(b) \/ (i < Len(b) /\ b[i + 1] \notin {"A9", "80", "83"})

\* str::ends_with('\n')
ends_with_newline(b) == Len(b) >= 1 /\ b[Len(b)] = "nl"

\* `format!("{:>4} ", count)`
count_prefix(n) ==
    LET digits == NatToString(n)
    IN  [i \in 1 .. Max(0, 4 - Len(digits)) |-> " "] \o digits \o <<" ">>

\* `format!("{}{}", prefix, prev_line)`
Written(prefix, l) == [prefix |-> prefix, line |-> l]

besidesUniqr == <<tailrVars, cutrVars, headrVars, wcrVars, lsrVars, greprVars,
                  commrVars>>

OnlyUniqr ==
    TailrIdle /\ CutrIdle /\ HeadrIdle /\ WcrIdle /\ LsrIdle /\ GreprIdle
        /\ CommrIdle

\* run: the two opens; either may fail
UniqOpen ==
    /\ uniq_pc = "open"
    /\ \E failed \in BOOLEAN :
          IF failed
          THEN /\ uniq_ret' = UniqErr(<<"open">>)
               /\ uniq_pc' = "returned"
          ELSE /\ uniq_pc' = "first"
               /\ UNCHANGED uniq_ret
    /\ UNCHANGED <<in_file, show_count, prev_line, curr_line, uniq_count,
                   uniq_pos, outfile>>
    /\ UNCHANGED besidesUniqr

\* run: the first read_line, and the return for an empty input
UniqFirst ==
    /\ uniq_pc = "first"
    /\ LET r == read_text_line(in_file, uniq_pos)
       IN  IF ~r.ok
           THEN /\ uniq_ret' = UniqErr(<<"stream did not contain valid UTF-8">>)
                /\ uniq_pc' = "returned"
                /\ UNCHANGED <<prev_line, uniq_pos>>
           ELSE /\ prev_line' = r.line
                /\ uniq_pos' = r.pos
                /\ IF Len(r.line) = 0
                   THEN uniq_ret' = UniqOk /\ uniq_pc' = "returned"
                   ELSE uniq_pc' = "loop" /\ UNCHANGED uniq_ret
    /\ uniq_count' = 0
    /\ UNCHANGED <<in_file, show_count, curr_line, outfile>>
    /\ UNCHANGED besidesUniqr

\* run: one iteration of the loop, and the flush and return after `break`
UniqLoop ==
    /\ uniq_pc = "loop"
    /\ LET r == read_text_line(in_file, uniq_pos)
           bytes == Len(r.line)
           slices == ~ends_with_newline(r.line)
           same == SubSeq(prev_line, 1, Len(prev_line) - 1) = r.line
           curr == IF slices /\ same THEN Append(r.line, "nl") ELSE r.line
           prefix == IF show_count THEN count_prefix(uniq_count + 1) ELSE <<>>
       IN  IF ~r.ok
           THEN /\ uniq_ret' = UniqErr(<<"stream did not contain valid UTF-8">>)
                /\ uniq_pc' = "returned"
                /\ UNCHANGED <<prev_line, curr_line, uniq_count, uniq_pos, outfile>>
           ELSE IF slices /\ ~is_char_boundary(prev_line, Len(prev_line) - 1)
           THEN /\ uniq_pc' = "panicked"
                /\ uniq_count' = uniq_count + 1
                /\ curr_line' = r.line
                /\ uniq_pos' = r.pos
                /\ UNCHANGED <<prev_line, outfile, uniq_ret>>
           ELSE /\ uniq_pos' = r.pos
                /\ IF curr # prev_line
                   THEN /\ outfile' = Append(outfile, Written(prefix, prev_line))
                        /\ prev_line' = curr
                        /\ uniq_count' = 0
                   ELSE /\ uniq_count' = uniq_count + 1
                        /\ UNCHANGED <<outfile, prev_line>>
                /\ IF bytes = 0
                   THEN /\ curr_line' = curr
                        /\ uniq_ret' = UniqOk
                        /\ uniq_pc' = "returned"
                   ELSE /\ curr_line' = <<>>
                        /\ UNCHANGED <<uniq_ret, uniq_pc>>
    /\ UNCHANGED <<in_file, show_count>>
    /\ UNCHANGED besidesUniqr

NextUniq == UniqOpen \/ UniqFirst \/ UniqLoop

\* two letters, a line feed, U+00E9 and a stray byte
UniqUnits == {<<"a">>, <<"b">>, <<"nl">>, <<"C3", "A9">>, <<"A9">>}

\* run on every input, with and without the count option
InitUniq ==
    /\ in_file \in StreamsOf(UniqUnits, MaxInputChars)
    /\ show_count \in BOOLEAN
    /\ prev_line = <<>>
    /\ curr_line = <<>>
    /\ uniq_count = 0
    /\ uniq_pos = 0
    /\ outfile = <<>>
    /\ uniq_ret = UniqNone
    /\ uniq_pc = "open"
    /\ OnlyUniqr

SpecUniq == InitUniq /\ [][NextUniq]_vars

\* a line without its line feed
Body(l) == IF ends_with_newline(l) THEN SubSeq(l, 1, Len(l) - 1) ELSE l

\* the lines that begin a maximal run of identical adjacent lines
RunStarts(c) ==
    {j \in 1 .. NumLines(c) :
        j = 1 \/ Body(LineOf(c, j)) # Body(LineOf(c, j - 1))}

\* the line that begins run k (1-based)
RunBegin(c, k) ==
    CHOOSE j \in RunStarts(c) : Cardinality({x \in RunStarts(c) : x <= j}) = k

\* the number of lines of the run that begins at line j
RunLength(c, j) ==
    Cardinality({i \in j .. NumLines(c) :
                    \A x \in j + 1 .. i : x \notin RunStarts(c)})

\* the number a prefix shows
Shown(prefix) == SelectSeq(prefix, LAMBDA ch : ch # " ")

\* C29: for every input, run writes exactly one output line for each maximal
\* run of identical adjacent input lines, in input order, blank runs and the
\* run at the end of the input included, and with the count option the
\* number prefixed to each output line is the length of its run.
C29_OneLinePerRun ==
    /\ uniq_pc # "panicked"
    /\ (uniq_pc = "returned" /\ uniq_ret = UniqOk) =>
          /\ Len(outfile) = Cardinality(RunStarts(in_file))
          /\ \A k \in 1 .. Len(outfile) :
                /\ Body(outfile[k].line)
                      = Body(LineOf(in_file, RunBegin(in_file, k)))
                /\ show_count =>
                      Shown(outfile[k].prefix)
                          = NatToString(RunLength(in_file, RunBegin(in_file, k)))

-----------------------------------------------------------------------------
(* commr: get_next_line and the loop of run that calls it.  file1 and file2 *)
(* keep the lines the two iterators started with; file1_lines and           *)
(* file2_lines are what the iterators still hold.                           *)

MaxFileLines == 2

\* enum Line
File1(t) == [tag |-> "File1", text |-> t]
File2(t) == [tag |-> "File2", text |-> t]
Both(t) == [tag |-> "Both", text |-> t]

LineNone == [tag |-> "None", text |-> <<>>]

\* the code point of a character
ord(c) == CASE c = "A" -> 65 [] c = "a" -> 97 [] c = "b" -> 98

\* str::to_lowercase
str_to_lowercase(l) == [i \in 1 .. Len(l) |-> to_lowercase(l[i])]

\* `impl Ord for str`: byte by byte, a prefix before what it is a prefix of
cmp(x, y) ==
    LET differ == {i \in 1 .. Min(Len(x), Len(y)) : x[i] # y[i]}
    IN  IF differ = {}
        THEN IF Len(x) < Len(y) THEN "Less"
             ELSE IF Len(x) = Len(y) THEN "Equal" ELSE "Greater"
        ELSE LET i == CHOOSE d \in differ : \A e \in differ : d <= e
             IN  IF ord(x[i]) < ord(y[i]) THEN "Less" ELSE "Greater"

\* what a call returns and what it leaves in the two iterators
Next12(l, r1, r2) == [line |-> l, rest1 |-> r1, rest2 |-> r2]

\* as get_next_line, with file2_lines left where it was on Equal
get_next_line_keeping_line2(l1, l2, ins) ==
    IF l1 = <<>> /\ l2 = <<>> THEN Next12(LineNone, l1, l2)
    ELSE IF l1 = <<>> THEN Next12(File2(Head(l2)), l1, Tail(l2))
    ELSE IF l2 = <<>> THEN Next12(File1(Head(l1)), Tail(l1), l2)
    ELSE LET res == IF ins
                    THEN cmp(str_to_lowercase(Head(l1)), str_to_lowercase(Head(l2)))
                    ELSE cmp(Head(l1), Head(l2))
         IN  CASE res = "Equal" -> Next12(Both(Head(l1)), Tail(l1), l2)
               [] res = "Less" -> Next12(File1(Head(l1)), Tail(l1), l2)
               [] res = "Greater" -> Next12(File2(Head(l2)), l1, Tail(l2))

get_next_line(l1, l2, ins) ==
    IF l1 = <<>> /\ l2 = <<>> THEN Next12(LineNone, l1, l2)
    ELSE IF l1 = <<>> THEN Next12(File2(Head(l2)), l1, Tail(l2))
    ELSE IF l2 = <<>> THEN Next12(File1(Head(l1)), Tail(l1), l2)
    ELSE LET res == IF ins
                    THEN cmp(str_to_lowercase(Head(l1)), str_to_lowercase(Head(l2)))
                    ELSE cmp(Head(l1), Head(l2))
         IN  CASE res = "Equal" -> Next12(Both(Head(l1)), Tail(l1), Tail(l2))
               [] res = "Less" -> Next12(File1(Head(l1)), Tail(l1), l2)
               [] res = "Greater" -> Next12(File2(Head(l2)), l1, Tail(l2))

\* the closure get_delims: how many times the delimiter is printed
get_delims(l) ==
    IF l.tag = "File2" /\ show_col[1] THEN 1
    ELSE IF l.tag = "Both" /\ show_col[1] /\ show_col[2] THEN 2
    ELSE IF l.tag = "Both" /\ (show_col[1] \/ show_col[2]) THEN 1
    ELSE 0

\* the line a println! of the loop writes
PrintedLine(d, t) == [delims |-> d, text |-> t]

\* the match of the loop: the line is printed when its column is shown
ShowLine(l) ==
    CASE l.tag = "File1" ->
            IF show_col[1] THEN <<PrintedLine(0, l.text)>> ELSE <<>>
      [] l.tag = "File2" ->
            IF show_col[2] THEN <<PrintedLine(get_delims(l), l.text)>> ELSE <<>>
      [] l.tag = "Both" ->
            IF show_col[3] THEN <<PrintedLine(get_delims(l), l.text)>> ELSE <<>>

besidesCommr == <<tailrVars, cutrVars, headrVars, wcrVars, lsrVars, greprVars,
                  uniqrVars>>

OnlyCommr ==
    TailrIdle /\ CutrIdle /\ HeadrIdle /\ WcrIdle /\ LsrIdle /\ GreprIdle
        /\ UniqrIdle

\* run: one iteration of the loop, the one that breaks and returns included
GetNextLine ==
    /\ comm_pc = "loop"
    /\ LET r == get_next_line(file1_lines, file2_lines, insensitive)
       IN  /\ calls' = calls + 1
           /\ file1_lines' = r.rest1
           /\ file2_lines' = r.rest2
           /\ IF r.line = LineNone
              THEN /\ comm_pc' = "returned"
                   /\ UNCHANGED <<reported, comm_out>>
              ELSE /\ reported' = Append(reported, r.line)
                   /\ comm_out' = comm_out \o ShowLine(r.line)
                   /\ UNCHANGED comm_pc
    /\ UNCHANGED <<file1, file2, insensitive, show_col>>
    /\ UNCHANGED besidesCommr

NextComm == GetNextLine

\* the lines of the files: they differ in case, and one begins another
CommLines == {<<"a">>, <<"A">>, <<"a", "b">>}

RECURSIVE FilesOf(_)
\* the files of at most n lines
FilesOf(n) ==
    IF n = 0 THEN {<<>>}
    ELSE FilesOf(n - 1)
            \cup {Append(f, l) : f \in {g \in FilesOf(n - 1) : Len(g) = n - 1},
                                 l \in CommLines}

\* run after the two files are opened, on every pair of files, sorted or not
InitComm ==
    /\ file1 \in FilesOf(MaxFileLines)
    /\ file2 \in FilesOf(MaxFileLines)
    /\ file1_lines = file1
    /\ file2_lines = file2
    /\ insensitive \in BOOLEAN
    /\ show_col \in BOOLEAN \X BOOLEAN \X BOOLEAN
    /\ reported = <<>>
    /\ comm_out = <<>>
    /\ calls = 0
    /\ comm_pc = "loop"
    /\ OnlyCommr

SpecComm == InitComm /\ [][NextComm]_vars

\* the lines a sequence of results reports of file1 (of file2)
ReportedOf(rs, tag) ==
    LET kept == SelectSeq(rs, LAMBDA l : l.tag \in {tag, "Both"})
    IN  [i \in 1 .. Len(kept) |-> kept[i].text]

\* a file as the comparison sees it
Compared(f) ==
    IF insensitive THEN [i \in 1 .. Len(f) |-> str_to_lowercase(f[i])] ELSE f

\* every line of file1 is reported once as File1 or Both, every line of
\* file2 once as File2 or Both, each file in its order
EachLineOnceInOrder ==
    /\ ReportedOf(reported, "File1") \o file1_lines = file1
    /\ Compared(ReportedOf(reported, "File2") \o file2_lines) = Compared(file2)
    /\ comm_pc = "returned" => file1_lines = <<>> /\ file2_lines = <<>>

\* a Both result was produced from two heads that compared equal
BothOnlyWhenEqual ==
    \A k \in 1 .. Len(reported) :
        reported[k].tag = "Both" =>
            LET before == SubSeq(reported, 1, k)
                i == Len(ReportedOf(before, "File1"))
                j == Len(ReportedOf(before, "File2"))
            IN  /\ i <= Len(file1)
                /\ j <= Len(file2)
                /\ Compared(<<file1[i]>>) = Compared(<<file2[j]>>)

\* C30 as stated: the loop ends after at most len(file1) + len(file2) calls
\* of get_next_line, every line of either file is reported once in order,
\* and Both only for equal heads.
C30_MergeEndsWithinTheLines ==
    /\ calls <= Len(file1) + Len(file2)
    /\ EachLineOnceInOrder
    /\ BothOnlyWhenEqual

\* C30: the loop ends after at most len(file1) + len(file2) + 1 calls of
\* get_next_line, one for each line reported and a last one that returns
\* None; every line of file1 is reported once (File1 or Both) and every line
\* of file2 once (File2 or Both), each file in its order; Both is produced
\* only when the two heads compare equal (without case when insensitive).
C30_MergeEndsAfterOneMoreCall ==
    /\ calls <= Len(file1) + Len(file2) + 1
    /\ calls = Len(reported) + (IF comm_pc = "returned" THEN 1 ELSE 0)
    /\ Len(reported) <= Len(file1) + Len(file2)
    /\ EachLineOnceInOrder
    /\ BothOnlyWhenEqual

C30_Witness ==
    /\ file1 = <<<<"A">>, <<"a", "b">>>>
    /\ file2 = <<<<"a">>>>
    /\ insensitive
    /\ comm_pc = "returned"
    /\ reported = <<Both(<<"A">>), File1(<<"a", "b">>)>>
    /\ calls = 3

====
